---- MODULE Spec2Model ----
(***************************************************************************)
(* The LG template evaluator of botbuilder-lg (evaluator.ts) as a state    *)
(* machine.  The recursive tree walk is unrolled into an explicit control  *)
(* stack `ctl` (the JavaScript call stack); `evaluationTargetStack` is the *)
(* evaluator's own field.  EvaluationTarget objects live in the heap       *)
(* `targets` because the code keeps references to them                     *)
(* (previousEvaluateTarget) after they have left the stack.                *)
(***************************************************************************)
EXTENDS Integers, Sequences, FiniteSets

VARIABLES
    templateMap,            \* Evaluator.templateMap: own keys, name -> Template
    lgOptions,              \* Evaluator.lgOptions
    targets,                \* heap: frame id -> EvaluationTarget
    evaluationTargetStack,  \* Evaluator.evaluationTargetStack, as frame ids
    ctl,                    \* activations of the evaluator's methods in progress
    reg,                    \* the call, return value or exception in flight
    outcome,                \* what the last top-level call gave the host
    lgFile,                 \* the Templates object the host holds
    functions,              \* Expression.functions: the entries Templates added
    edit,                   \* the host's last parse or edit call and how it ended
    languageGenerators,     \* MultiLanguageGenerator.languageGenerators: locale -> generator
    generated               \* what the last MultiLanguageGenerator.generate gave

vars == <<templateMap, lgOptions, targets, evaluationTargetStack, ctl, reg, outcome,
          lgFile, functions, edit, languageGenerators, generated>>

\* the fields of the Templates object and what hangs on them
templatesVars == <<lgFile, functions, edit>>

\* the multi-language generator of the host
generatorVars == <<languageGenerators, generated>>

-----------------------------------------------------------------------------
(* Bounds of the model *)

\* how many activations the control stack may hold
MaxCtl == 14

-----------------------------------------------------------------------------
(* Sequences *)

Last(s) == s[Len(s)]
Front(s) == SubSeq(s, 1, Len(s) - 1)
Reverse(s) == [i \in 1..Len(s) |-> s[Len(s) + 1 - i]]

RECURSIVE Flatten(_)
Flatten(ss) == IF ss = <<>> THEN <<>> ELSE Head(ss) \o Flatten(Tail(ss))

-----------------------------------------------------------------------------
(* JavaScript values: text is a sequence of characters *)

Str(s) == [t |-> "string", v |-> s]
Undefined == [t |-> "undefined", v |-> <<>>]
Null == [t |-> "null", v |-> <<>>]
Bool(b) == [t |-> "boolean", v |-> IF b THEN <<"true">> ELSE <<"false">>]
\* an object: its own keys in insertion order, as <<key, value>> pairs
Obj(pairs) == [t |-> "object", v |-> pairs]

\* `!result` is false
Truthy(v) ==
    CASE v.t = "string" -> v.v # <<>>
      [] v.t = "boolean" -> v.v = <<"true">>
      [] v.t = "object" -> TRUE
      [] OTHER -> FALSE

\* value.toString(); undefined and null have no toString
HasToString(v) == v.t \notin {"undefined", "null"}
JsToString(v) == IF v.t = "object" THEN <<"[object Object]">> ELSE v.v

\* JSON.stringify of a non-string piece
JsonStringify(v) ==
    CASE v.t = "null" -> <<"null">>
      [] v.t = "object" -> <<"{">> \o Flatten([i \in 1..Len(v.v) |-> <<v.v[i][1]>>]) \o <<"}">>
      [] OTHER -> v.v

\* result.replace(newLineRegex, '$1$1')
RECURSIVE DoubleNewLines(_)
DoubleNewLines(s) ==
    IF s = <<>> THEN <<>>
    ELSE IF Head(s) = "\n" THEN <<"\n", "\n">> \o DoubleNewLines(Tail(s))
    ELSE <<Head(s)>> \o DoubleNewLines(Tail(s))

-----------------------------------------------------------------------------
(* Errors: the kind is the head of the message, `trail` the                *)
(* "[template] Error occurred when evaluating ..." suffixes added on the   *)
(* way up                                                                  *)

NoErr == [kind |-> "none", name |-> <<>>, chain |-> <<>>, trail |-> <<>>]
Err(kind, name, chain) == [kind |-> kind, name |-> name, chain |-> chain, trail |-> <<>>]
TypeError == Err("TypeError", <<>>, <<>>)

-----------------------------------------------------------------------------
(* Memory *)

NoMemory == <<>>

RECURSIVE Lookup(_, _)
Lookup(mem, key) ==
    IF mem = <<>> THEN Undefined
    ELSE IF Head(mem)[1] = key THEN Head(mem)[2]
    ELSE Lookup(Tail(mem), key)

HasKey(mem, key) == \E i \in 1..Len(mem) : mem[i][1] = key

\* new CustomizedMemory(globalMemory, localMemory)
CustomizedMemory(g, l) == [cm |-> TRUE, globalMemory |-> g, localMemory |-> l]
\* a plain object handed in by the host
PlainObject(g) == [cm |-> FALSE, globalMemory |-> g, localMemory |-> NoMemory]

\* CustomizedMemory.getValue: the local layer over the global one
GetValue(scope, key) ==
    IF HasKey(scope.localMemory, key) THEN Lookup(scope.localMemory, key)
    ELSE Lookup(scope.globalMemory, key)

-----------------------------------------------------------------------------
(* Template names *)

ReExecuteSuffix == "!"

NameA == <<"A">>
NameB == <<"B">>
NameC == <<"C">>
TemplateNames == {NameA, NameB, NameC}

\* keys every plain JavaScript object inherits; `in` finds them
ObjectPrototypeKeys == {<<"constructor">>}

Bang(n) == n \o <<ReExecuteSuffix>>

parseTemplateName(templateName) ==
    IF templateName # <<>> /\ Last(templateName) = ReExecuteSuffix
    THEN [reExecute |-> TRUE, pureTemplateName |-> Front(templateName)]
    ELSE [reExecute |-> FALSE, pureTemplateName |-> templateName]

-----------------------------------------------------------------------------
(* Parse trees.  Every record of one sort has the same fields.            *)

NoExp == [op |-> "none", fn |-> <<>>, key |-> "", args |-> <<>>, val |-> Undefined]
\* ${'text'}, ${true}
Const(v) == [NoExp EXCEPT !.op = "const", !.val = v]
\* ${key}
Var(k) == [NoExp EXCEPT !.op = "var", !.key = k]
\* an expression the expression engine fails on, e.g. ${1/0}
Fail == [NoExp EXCEPT !.op = "fail"]
\* ${name(args)}: a template called as a function
Call(n, a) == [NoExp EXCEPT !.op = "call", !.fn = n, !.args = a]
\* ${template('name', args)}
TemplateFn(n, a) == [NoExp EXCEPT !.op = "template", !.fn = n, !.args = a]
\* ${template(key, args)}: the name is read from the scope
TemplateFnOf(k, a) == [NoExp EXCEPT !.op = "templateOf", !.key = k, !.args = a]
\* the expressions that call a template
TemplateCalls == {"call", "template", "templateOf"}

Text(s) == [type |-> "TEXT", text |-> s, exp |-> NoExp]
Escape(s) == [type |-> "ESCAPE_CHARACTER", text |-> s, exp |-> NoExp]
Expr(e) == [type |-> "EXPRESSION", text |-> <<>>, exp |-> e]

\* an ifConditionRule or a switchCaseRule; strs = <<>> is normalTemplateBody() === undefined
Rule(stat, e, strs) == [stat |-> stat, exp |-> e, strs |-> strs]
HasBody(rule) == rule.strs # <<>>
HasExpression(rule) == rule.exp.op # "none"

NormalBody(strs) == [kind |-> "normal", strs |-> strs, rules |-> <<>>]
IfElseBody(rules) == [kind |-> "ifelse", strs |-> <<>>, rules |-> rules]
SwitchCaseBody(rules) == [kind |-> "switch", strs |-> <<>>, rules |-> rules]
\* templateMap[k] for an inherited key k is no Template: its
\* templateBodyParseTree and parameters are undefined
NoBody == [kind |-> "undefined", strs |-> <<>>, rules |-> <<>>]

\* a structured body: [typeName, then key = value lines and ${...} lines
KeyValueLine(key, e, text) == [stat |-> "KV", key |-> key, exp |-> e, text |-> text]
ObjectLine(e) == [stat |-> "OBJ", key |-> "", exp |-> e, text |-> <<>>]
StructuredBody(typeName, lines) ==
    [kind |-> "structured", strs |-> <<>>, rules |-> lines, typeName |-> typeName]

Template(n, ps, b) == [name |-> n, parameters |-> ps, templateBodyParseTree |-> b]

-----------------------------------------------------------------------------
(* EvaluationTarget objects and the heap that holds them                   *)

EvaluationTarget(n, s) == [templateName |-> n, scope |-> s, evaluatedChildren |-> {}]

\* EvaluationTarget.getId(): the template name followed by the identity of
\* the two memory layers of the scope
getId(target) == <<target.templateName, target.scope.globalMemory, target.scope.localMemory>>

\* Map.has / Map.get / Map.set on evaluatedChildren
MapHas(m, id) == \E e \in m : e.id = id
MapGet(m, id) == (CHOOSE e \in m : e.id = id).value
MapSet(m, id, v) == {e \in m : e.id # id} \cup {[id |-> id, value |-> v]}

Range(s) == {s[i] : i \in DOMAIN s}
NewId(t) == CHOOSE i \in 1..(Cardinality(DOMAIN t) + 1) :
                /\ i \notin DOMAIN t
                /\ \A j \in 1..(i - 1) : j \in DOMAIN t
Put(t, f, v) == [x \in DOMAIN t \cup {f} |-> IF x = f THEN v ELSE t[x]]
\* objects nothing refers to any more are dropped from the heap
Referenced(stack, c) == Range(stack) \cup {c[i].prev : i \in DOMAIN c}
Collect(t, stack, c) == [x \in DOMAIN t \cap Referenced(stack, c) |-> t[x]]

-----------------------------------------------------------------------------
(* The control stack and the register                                      *)

Act0 == [fn |-> "", pc |-> "", name |-> <<>>, prev |-> 0, me |-> 0, cid |-> <<>>,
         strs |-> <<>>, nodes |-> <<>>, rules |-> <<>>, idx |-> 0, acc |-> <<>>,
         sw |-> <<>>, exp |-> NoExp, typeName |-> ""]

EvaluateTemplateAct(n, prev, me, cid) ==
    [Act0 EXCEPT !.fn = "evaluateTemplate", !.name = n, !.prev = prev, !.me = me, !.cid = cid]
NormalTemplateBodyAct(strs) == [Act0 EXCEPT !.fn = "visitNormalTemplateBody", !.strs = strs]
NormalTemplateStringAct(nodes) ==
    [Act0 EXCEPT !.fn = "visitNormalTemplateString", !.nodes = nodes, !.idx = 1]
IfElseBodyAct(rules) == [Act0 EXCEPT !.fn = "visitIfElseBody", !.rules = rules, !.idx = 1]
SwitchCaseBodyAct(rules) ==
    [Act0 EXCEPT !.fn = "visitSwitchCaseBody", !.pc = "switch", !.rules = rules, !.idx = 1]
ExpressionAct(fn, e) == [Act0 EXCEPT !.fn = fn, !.pc = "start", !.exp = e]

\* Evaluator.LGType
LGType == "lgType"

\* visitStructuredTemplateBody after `result[Evaluator.LGType] = typeName`
StructuredTemplateBodyAct(typeName, lines) ==
    [Act0 EXCEPT !.fn = "visitStructuredTemplateBody", !.rules = lines, !.idx = 1,
                 !.typeName = typeName,
                 !.acc = << <<LGType, Str(<<typeName>>)>> >>]

\* this.visit(tree): dispatch on the kind of the parse tree
Visit(body) ==
    CASE body.kind = "normal" -> NormalTemplateBodyAct(body.strs)
      [] body.kind = "ifelse" -> IfElseBodyAct(body.rules)
      [] body.kind = "switch" -> SwitchCaseBodyAct(body.rules)
      [] body.kind = "structured" -> StructuredTemplateBodyAct(body.typeName, body.rules)

Top == Last(ctl)
Popped == Front(ctl)
ReplaceTop(a) == Append(Front(ctl), a)

NoScope == PlainObject(NoMemory)
Idle == [st |-> "idle", name |-> <<>>, scope |-> NoScope, val |-> Undefined, err |-> NoErr]
CallOf(n, s) == [Idle EXCEPT !.st = "call", !.name = n, !.scope = s]
Return(v) == [Idle EXCEPT !.st = "return", !.val = v]
Throw(e) == [Idle EXCEPT !.st = "throw", !.err = e]

Running == reg.st = "idle" /\ ctl # <<>>
Returned == reg.st = "return" /\ ctl # <<>>

-----------------------------------------------------------------------------
(* evaluateTemplate: lines 75-108                                          *)

\* `name in this.templateMap`: own and inherited keys of the keyBy object
InTemplateMap(map, name) == name \in DOMAIN map \/ name \in ObjectPrototypeKeys

\* this.templateMap[name]
GetTemplate(map, name) ==
    IF name \in DOMAIN map THEN map[name] ELSE Template(name, <<>>, NoBody)
ParametersDefined(map, name) == name \in DOMAIN map

\* a loop check that looks at the calling frame only
OnStack_CallerOnly(t, stack, name) ==
    stack # <<>> /\ t[stack[Len(stack)]].templateName = name

\* evaluationTargetStack.some(u => u.templateName === templateName)
OnStack(t, stack, name) == \E i \in 1..Len(stack) : t[stack[i]].templateName = name

\* Array.prototype.reverse() reverses the array in place and returns it
StackAfterLoopDetected(stack) == Reverse(stack)

\* a chain that closes the cycle by naming the outermost template again
LoopChain_Closed(t, stack) ==
    [i \in 1..(Len(stack) + 1) |->
        IF i <= Len(stack) THEN t[stack[i]].templateName ELSE t[stack[1]].templateName]

\* evaluationTargetStack.reverse().map(u => u.templateName), joined by ' => '
LoopChain(t, stack) == [i \in 1..Len(stack) |-> t[Reverse(stack)[i]].templateName]

\* scope instanceof CustomizedMemory, else wrapped
WrapScope(scope) ==
    IF scope.cm THEN scope ELSE CustomizedMemory(scope.globalMemory, NoMemory)

\* lines 99-104: the caller's frame answers from its evaluatedChildren
CacheHit(t, stack, reExecute, id) ==
    /\ Len(stack) # 0
    /\ ~reExecute
    /\ MapHas(t[Last(stack)].evaluatedChildren, id)

evaluateTemplate ==
    /\ reg.st = "call"
    /\ Len(ctl) + 2 <= MaxCtl
    /\ UNCHANGED <<templatesVars, generatorVars>>
    /\ UNCHANGED <<templateMap, lgOptions, outcome>>
    /\ LET parsed == parseTemplateName(reg.name)
           templateName == parsed.pureTemplateName
           stack == evaluationTargetStack
       IN
       IF reg.name = <<>> THEN
           /\ reg' = Throw(Err("emptyName", <<>>, <<>>))
           /\ UNCHANGED <<targets, evaluationTargetStack, ctl>>
       ELSE IF ~InTemplateMap(templateMap, templateName) THEN
           /\ reg' = Throw(Err("templateNotExist", templateName, <<>>))
           /\ UNCHANGED <<targets, evaluationTargetStack, ctl>>
       ELSE IF OnStack(targets, stack, templateName) THEN
           /\ reg' = Throw(Err("loopDetected", <<>>, LoopChain(targets, stack)))
           /\ evaluationTargetStack' = StackAfterLoopDetected(stack)
           /\ UNCHANGED <<targets, ctl>>
       ELSE
           LET templateTarget == EvaluationTarget(templateName, WrapScope(reg.scope))
               currentEvulateId == getId(templateTarget)
               prev == IF Len(stack) # 0 THEN Last(stack) ELSE 0
           IN
           IF CacheHit(targets, stack, parsed.reExecute, currentEvulateId) THEN
               /\ reg' = Return(MapGet(targets[prev].evaluatedChildren, currentEvulateId))
               /\ UNCHANGED <<targets, evaluationTargetStack, ctl>>
           ELSE
               LET me == NewId(targets)
                   body == GetTemplate(templateMap, templateName).templateBodyParseTree
               IN
               /\ targets' = Put(targets, me, templateTarget)
               /\ evaluationTargetStack' = Append(stack, me)
               /\ IF body.kind = "undefined"
                  THEN \* this.visit(undefined)
                       /\ reg' = Throw(TypeError)
                       /\ ctl' = ctl
                  ELSE /\ reg' = Idle
                       /\ ctl' = ctl \o <<EvaluateTemplateAct(templateName, prev, me,
                                                              currentEvulateId),
                                          Visit(body)>>

-----------------------------------------------------------------------------
(* evaluateTemplate: lines 108-120, once the body has been visited         *)

\* stack.pop(): the last element goes, an empty array stays empty
PopStack(stack) == IF stack = <<>> THEN <<>> ELSE Front(stack)

\* lines 116-118
LineBreak(opt, result) ==
    IF opt.LineBreakStyle = "markdown" /\ result.t = "string"
    THEN Str(DoubleNewLines(result.v))
    ELSE result

\* lines 110-112
SetEvaluatedChild(t, prev, id, result) ==
    IF prev # 0
    THEN [t EXCEPT ![prev].evaluatedChildren = MapSet(@, id, result)]
    ELSE t

evaluateTemplateReturn ==
    /\ Returned
    /\ Top.fn = "evaluateTemplate"
    /\ UNCHANGED <<templatesVars, generatorVars>>
    /\ UNCHANGED <<templateMap, lgOptions, outcome>>
    /\ LET result == reg.val
           stack == PopStack(evaluationTargetStack)
       IN
       /\ evaluationTargetStack' = stack
       /\ ctl' = Popped
       /\ targets' = Collect(SetEvaluatedChild(targets, Top.prev, Top.cid, result),
                             stack, Popped)
       /\ reg' = Return(LineBreak(lgOptions, result))

-----------------------------------------------------------------------------
(* Normal templates: lines 184-240                                         *)

\* Math.floor(Math.random() * length)
\* an index generator that can also yield the length itself
RandomNumbers_UpToLength(length) == 0..length

RandomNumbers(length) == 0..(length - 1)

\* line 192: an index outside the candidates reads undefined, and calling
\* normalTemplateString() on undefined is a TypeError
visitNormalTemplateBody ==
    /\ Running
    /\ Top.fn = "visitNormalTemplateBody"
    /\ \E randomNumber \in RandomNumbers(Len(Top.strs)) :
           IF randomNumber + 1 \in DOMAIN Top.strs
           THEN /\ ctl' = ReplaceTop(NormalTemplateStringAct(Top.strs[randomNumber + 1]))
                /\ reg' = reg
           ELSE /\ ctl' = Popped
                /\ reg' = Throw(TypeError)
    /\ UNCHANGED <<templatesVars, generatorVars>>
    /\ UNCHANGED <<templateMap, lgOptions, targets, evaluationTargetStack, outcome>>

\* lines 229-239: one non-string piece is returned as it is, anything else
\* is joined into a string
JoinPieces(result) ==
    IF Len(result) = 1 /\ result[1].t # "string"
    THEN result[1]
    ELSE Str(Flatten([i \in 1..Len(result) |->
                 IF result[i].t = "string" THEN result[i].v ELSE JsonStringify(result[i])]))

visitNormalTemplateString ==
    /\ ctl # <<>>
    /\ Top.fn = "visitNormalTemplateString"
    /\ reg.st \in {"idle", "return"}
    /\ UNCHANGED <<templatesVars, generatorVars>>
    /\ UNCHANGED <<templateMap, lgOptions, targets, evaluationTargetStack, outcome>>
    /\ IF reg.st = "return" THEN
           \* result.push(this.evalExpression(...))
           /\ ctl' = ReplaceTop([Top EXCEPT !.acc = Append(@, reg.val), !.idx = @ + 1])
           /\ reg' = Idle
       ELSE IF Top.idx > Len(Top.nodes) THEN
           /\ ctl' = Popped
           /\ reg' = Return(JoinPieces(Top.acc))
       ELSE IF Top.nodes[Top.idx].type = "EXPRESSION" THEN
           /\ Len(ctl) < MaxCtl
           /\ ctl' = Append(ctl, ExpressionAct("evalExpression", Top.nodes[Top.idx].exp))
           /\ reg' = reg
       ELSE
           \* literal text and evaluated escapes
           /\ ctl' = ReplaceTop([Top EXCEPT !.acc = Append(@, Str(Top.nodes[Top.idx].text)),
                                            !.idx = @ + 1])
           /\ reg' = reg

-----------------------------------------------------------------------------
(* Expressions: lines 364-420 and the template functions, lines 242-265,   *)
(* 507-512, 547-551                                                        *)

\* currentTarget(): the top of the stack, undefined when the stack is empty
currentTarget(t, stack) == IF stack = <<>> THEN Undefined ELSE t[Last(stack)]

\* newScope[e] = args[i] for each declared parameter
BindParameters(parameters, args) ==
    [i \in 1..Len(parameters) |->
        <<parameters[i], IF i <= Len(args) THEN args[i] ELSE Undefined>>]

\* a constructScope that lays the parameters over the caller's whole scope
constructScope_OverCallerScope(map, inputTemplateName, args, target) ==
    LET templateName == parseTemplateName(inputTemplateName).pureTemplateName
    IN
    IF inputTemplateName = <<>> THEN
        [error |-> Err("emptyName", <<>>, <<>>), scope |-> NoScope]
    ELSE IF ~InTemplateMap(map, templateName) THEN
        [error |-> Err("templateNotExist", templateName, <<>>), scope |-> NoScope]
    ELSE IF target = Undefined \/ (Len(args) # 0 /\ ~ParametersDefined(map, templateName)) THEN
        [error |-> TypeError, scope |-> NoScope]
    ELSE IF Len(args) = 0 THEN
        [error |-> NoErr, scope |-> target.scope]
    ELSE
        [error |-> NoErr,
         scope |-> CustomizedMemory(target.scope.localMemory \o target.scope.globalMemory,
                       BindParameters(GetTemplate(map, templateName).parameters, args))]

\* constructScope, given currentTarget(): the scope or the error thrown
constructScope(map, inputTemplateName, args, target) ==
    LET templateName == parseTemplateName(inputTemplateName).pureTemplateName
        parameters == GetTemplate(map, templateName).parameters
        currentScope == target.scope
    IN
    IF inputTemplateName = <<>> THEN
        [error |-> Err("emptyName", <<>>, <<>>), scope |-> NoScope]
    ELSE IF ~InTemplateMap(map, templateName) THEN
        [error |-> Err("templateNotExist", templateName, <<>>), scope |-> NoScope]
    ELSE IF target = Undefined THEN
        \* this.currentTarget().scope of an empty stack
        [error |-> TypeError, scope |-> NoScope]
    ELSE IF Len(args) = 0 THEN
        [error |-> NoErr, scope |-> currentScope]
    ELSE IF ~ParametersDefined(map, templateName) THEN
        \* undefined.map(...)
        [error |-> TypeError, scope |-> NoScope]
    ELSE
        [error |-> NoErr,
         scope |-> CustomizedMemory(currentScope.globalMemory,
                                    BindParameters(parameters, args))]

\* a reference check that does not compare the argument counts
checkTemplateReference_AnyCount(map, templateName, children) ==
    IF ~InTemplateMap(map, templateName) THEN Err("templateNotExist", templateName, <<>>)
    ELSE IF ~ParametersDefined(map, templateName) THEN TypeError
    ELSE NoErr

\* lines 533-545: the error thrown, or none
checkTemplateReference(map, templateName, children) ==
    LET expectedArgsCount == Len(GetTemplate(map, templateName).parameters)
        actualArgsCount == Len(children)
    IN
    IF ~InTemplateMap(map, templateName) THEN Err("templateNotExist", templateName, <<>>)
    ELSE IF ~ParametersDefined(map, templateName) THEN
        \* undefined.length
        TypeError
    ELSE IF actualArgsCount # 0 /\ expectedArgsCount # actualArgsCount THEN
        Err("argumentMismatch", templateName, <<>>)
    ELSE NoErr

\* lines 553-555: expression.type is the name the evaluator was built with,
\* the name without the re-execute marker
validTemplateReference(map, e) ==
    checkTemplateReference(map, parseTemplateName(e.fn).pureTemplateName, e.args)

\* lines 514-531: only a constant name is checked, and as it is written
validateTemplateFunction(map, e) ==
    IF e.op = "template" THEN checkTemplateReference(map, e.fn, e.args) ELSE NoErr

\* expressionParser.parse(exp), line 415: the lookup of lines 423-460 finds
\* the evaluator of the function and the parser runs its validator; the
\* error thrown, or none
parse(map, e) ==
    CASE e.op = "call" ->
             IF ~InTemplateMap(map, parseTemplateName(e.fn).pureTemplateName)
             THEN Err("noEvaluator", e.fn, <<>>)
             ELSE validTemplateReference(map, e)
      [] e.op \in {"template", "templateOf"} -> validateTemplateFunction(map, e)
      [] OTHER -> NoErr

\* args[0] of the template function, or the name called: a name that is
\* no string is no name
CalledTemplate(e, scope) ==
    IF e.op = "templateOf"
    THEN LET name == GetValue(scope, e.key)
         IN IF name.t = "string" THEN name.v ELSE <<>>
    ELSE e.fn

\* Expression.tryEvaluate of an expression that calls no template
tryEvaluate(e, scope) ==
    CASE e.op = "const" -> [value |-> e.val, error |-> NoErr]
      [] e.op = "var" -> [value |-> GetValue(scope, e.key), error |-> NoErr]
      [] OTHER -> [value |-> Undefined, error |-> Err("expression", <<>>, <<>>)]

\* ExpressionFunctions.apply: what the template function returned or threw
\* becomes { value, error }
applyResult(r) ==
    IF r.st = "throw" THEN [value |-> Undefined, error |-> r.err]
    ELSE [value |-> r.val, error |-> NoErr]

\* checkExpressionResult: the message thrown, lines 322-341
checkExpressionResult(tr, templateName) ==
    LET child == IF tr.error # NoErr THEN tr.error ELSE Err("nullExpression", <<>>, <<>>)
    IN [child EXCEPT !.trail = Append(@, templateName)]

\* an evalExpression that raises nothing unless the mode is strict
ExpressionThrows_StrictOnly(opt, tr) ==
    opt.strictMode /\ (tr.error # NoErr \/ tr.value.t = "undefined")

\* lines 395 and 370: does the result make the evaluation throw
ExpressionThrows(opt, tr) ==
    tr.error # NoErr \/ (tr.value.t = "undefined" /\ opt.strictMode)

\* a condition that raises every error, whatever the mode
ConditionThrows_EveryError(opt, tr) ==
    tr.error # NoErr \/ (opt.strictMode /\ ~Truthy(tr.value))

\* line 370
ConditionThrows(opt, tr) ==
    opt.strictMode /\ (tr.error # NoErr \/ ~Truthy(tr.value))

\* lines 406-411
ExpressionValue(tr) == IF tr.value.t = "undefined" THEN Str(<<"null">>) ELSE tr.value
\* lines 380-385
ConditionValue(tr) == Bool(~(tr.error # NoErr \/ ~Truthy(tr.value)))

\* the rest of evalExpression / evalExpressionInCondition once the
\* expression engine has answered
ExpressionDone(tr) ==
    LET throws == IF Top.fn = "evalExpression" THEN ExpressionThrows(lgOptions, tr)
                  ELSE ConditionThrows(lgOptions, tr)
        stack == evaluationTargetStack
    IN
    IF throws THEN
        IF stack = <<>> THEN
            \* this.currentTarget().templateName of an empty stack
            /\ reg' = Throw(TypeError)
            /\ ctl' = Popped
            /\ evaluationTargetStack' = stack
            /\ targets' = Collect(targets, stack, Popped)
        ELSE
            /\ reg' = Throw(checkExpressionResult(tr, targets[Last(stack)].templateName))
            /\ ctl' = Popped
            /\ evaluationTargetStack' = PopStack(stack)
            /\ targets' = Collect(targets, PopStack(stack), Popped)
    ELSE
        /\ reg' = Return(IF Top.fn = "evalExpression" THEN ExpressionValue(tr)
                         ELSE ConditionValue(tr))
        /\ ctl' = Popped
        /\ UNCHANGED <<targets, evaluationTargetStack>>

evalExpression ==
    /\ Running
    /\ Top.fn \in {"evalExpression", "evalExpressionInCondition"}
    /\ Top.pc = "start"
    /\ UNCHANGED <<templatesVars, generatorVars>>
    /\ UNCHANGED <<templateMap, lgOptions, outcome>>
    /\ IF evaluationTargetStack = <<>> THEN
           \* this.currentTarget().scope of an empty stack
           /\ reg' = Throw(TypeError)
           /\ ctl' = Popped
           /\ UNCHANGED <<targets, evaluationTargetStack>>
       ELSE
           LET scope == targets[Last(evaluationTargetStack)].scope
               e == Top.exp
           IN
           IF parse(templateMap, e) # NoErr THEN
               \* thrown by parse, outside tryEvaluate: nothing is popped
               /\ reg' = Throw(parse(templateMap, e))
               /\ ctl' = Popped
               /\ UNCHANGED <<targets, evaluationTargetStack>>
           ELSE IF e.op \in TemplateCalls THEN
               LET templateName == CalledTemplate(e, scope)
                   cs == constructScope(templateMap, templateName, e.args,
                                        currentTarget(targets, evaluationTargetStack))
               IN
               IF cs.error # NoErr
               THEN ExpressionDone([value |-> Undefined, error |-> cs.error])
               ELSE /\ reg' = CallOf(templateName, cs.scope)
                    /\ ctl' = ReplaceTop([Top EXCEPT !.pc = "awaiting"])
                    /\ UNCHANGED <<targets, evaluationTargetStack>>
           ELSE ExpressionDone(tryEvaluate(e, scope))

\* the template function has returned or thrown into ExpressionFunctions.apply
evalExpressionReturn ==
    /\ ctl # <<>>
    /\ Top.fn \in {"evalExpression", "evalExpressionInCondition"}
    /\ Top.pc = "awaiting"
    /\ reg.st \in {"return", "throw"}
    /\ UNCHANGED <<templatesVars, generatorVars>>
    /\ UNCHANGED <<templateMap, lgOptions, outcome>>
    /\ ExpressionDone(applyResult(reg))

-----------------------------------------------------------------------------
(* Conditional templates: lines 195-204, 348-362                           *)

visitIfElseBody ==
    /\ ctl # <<>>
    /\ Top.fn = "visitIfElseBody"
    /\ reg.st \in {"idle", "return"}
    /\ UNCHANGED <<templatesVars, generatorVars>>
    /\ UNCHANGED <<templateMap, lgOptions, targets, evaluationTargetStack, outcome>>
    /\ IF Top.idx > Len(Top.rules) THEN
           /\ reg.st = "idle"
           /\ ctl' = Popped
           /\ reg' = Return(Undefined)
       ELSE
           LET ifRule == Top.rules[Top.idx]
           IN
           IF reg.st = "idle" /\ HasExpression(ifRule) THEN
               /\ Len(ctl) < MaxCtl
               /\ ctl' = Append(ctl, ExpressionAct("evalExpressionInCondition", ifRule.exp))
               /\ reg' = reg
           ELSE
               \* no expression means it's else
               LET condition == IF reg.st = "idle" THEN TRUE ELSE Truthy(reg.val)
               IN
               /\ reg' = Idle
               /\ IF condition /\ HasBody(ifRule)
                  THEN ctl' = ReplaceTop(NormalTemplateBodyAct(ifRule.strs))
                  ELSE ctl' = ReplaceTop([Top EXCEPT !.idx = @ + 1])

-----------------------------------------------------------------------------
(* Switch templates: lines 267-300                                         *)

visitSwitchCaseBody ==
    /\ ctl # <<>>
    /\ Top.fn = "visitSwitchCaseBody"
    /\ UNCHANGED <<templatesVars, generatorVars>>
    /\ UNCHANGED <<templateMap, lgOptions, targets, evaluationTargetStack, outcome>>
    /\ LET length == Len(Top.rules)
           caseNode == Top.rules[Top.idx]
       IN
       CASE Top.pc = "switch" ->
               /\ reg.st = "idle"
               /\ Len(ctl) < MaxCtl
               /\ ctl' = Append(ReplaceTop([Top EXCEPT !.pc = "switchValue"]),
                                ExpressionAct("evalExpression", Top.rules[1].exp))
               /\ reg' = reg
         [] Top.pc = "switchValue" ->
               /\ reg.st = "return"
               /\ IF HasToString(reg.val)
                  THEN /\ ctl' = ReplaceTop([Top EXCEPT !.pc = "case", !.idx = 2,
                                                        !.sw = JsToString(reg.val)])
                       /\ reg' = Idle
                  ELSE /\ ctl' = Popped
                       /\ reg' = Throw(TypeError)
         [] Top.pc = "case" ->
               /\ reg.st = "idle"
               /\ IF Top.idx > length THEN
                      /\ ctl' = Popped
                      /\ reg' = Return(Undefined)
                  ELSE IF Top.idx = length /\ caseNode.stat = "DEFAULT" THEN
                      IF HasBody(caseNode)
                      THEN /\ ctl' = ReplaceTop(NormalTemplateBodyAct(caseNode.strs))
                           /\ reg' = reg
                      ELSE /\ ctl' = Popped
                           /\ reg' = Return(Undefined)
                  ELSE IF ~HasExpression(caseNode) THEN
                      \* caseExprs[0].text of undefined
                      /\ ctl' = Popped
                      /\ reg' = Throw(TypeError)
                  ELSE
                      /\ Len(ctl) < MaxCtl
                      /\ ctl' = Append(ReplaceTop([Top EXCEPT !.pc = "caseValue"]),
                                       ExpressionAct("evalExpression", caseNode.exp))
                      /\ reg' = reg
         [] Top.pc = "caseValue" ->
               /\ reg.st = "return"
               /\ IF ~HasToString(reg.val) THEN
                      /\ ctl' = Popped
                      /\ reg' = Throw(TypeError)
                  ELSE IF Top.sw = JsToString(reg.val) THEN
                      IF HasBody(caseNode)
                      THEN /\ ctl' = ReplaceTop(NormalTemplateBodyAct(caseNode.strs))
                           /\ reg' = Idle
                      ELSE \* this.visit(undefined)
                           /\ ctl' = Popped
                           /\ reg' = Throw(TypeError)
                  ELSE
                      /\ ctl' = ReplaceTop([Top EXCEPT !.pc = "case", !.idx = @ + 1])
                      /\ reg' = Idle

-----------------------------------------------------------------------------
(* Structured templates: lines 123-182                                     *)

\* text.toLowerCase() of a property name
ToLowerCase(key) ==
    CASE key = "Text" -> "text"
      [] key = "Speak" -> "speak"
      [] OTHER -> key

\* `key in result`: own keys and the keys every plain object inherits
KeyIn(result, key) == HasKey(result, key) \/ <<key>> \in ObjectPrototypeKeys

\* result[property] = value
SetProperty(result, property, value) ==
    IF HasKey(result, property)
    THEN [i \in 1..Len(result) |->
             IF result[i][1] = property THEN <<property, value>> ELSE result[i]]
    ELSE Append(result, <<property, value>>)

\* lines 138: typeof propertyObject === 'object' && LGType in propertyObject
\* && propertyObject[LGType].toString() === typeName
SameStructureType(propertyObject, typeName) ==
    /\ propertyObject.t = "object"
    /\ KeyIn(propertyObject.v, LGType)
    /\ HasKey(propertyObject.v, LGType)
    /\ HasToString(Lookup(propertyObject.v, LGType))
    /\ JsToString(Lookup(propertyObject.v, LGType)) = <<typeName>>

\* a merge that lets the referenced object win
RECURSIVE MergeKeys_LastWriterWins(_, _)
MergeKeys_LastWriterWins(result, pairs) ==
    IF pairs = <<>> THEN result
    ELSE LET merged == MergeKeys_LastWriterWins(result, Front(pairs))
         IN SetProperty(merged, Last(pairs)[1], Last(pairs)[2])

\* lines 139-143: for (const key of Object.keys(propertyObject))
\*                    if (... && !(key in result)) result[key] = propertyObject[key]
RECURSIVE MergeKeys(_, _)
MergeKeys(result, pairs) ==
    IF pairs = <<>> THEN result
    ELSE LET merged == MergeKeys(result, Front(pairs))
             key == Last(pairs)[1]
         IN IF KeyIn(merged, key) THEN merged
            ELSE Append(merged, <<key, Last(pairs)[2]>>)

visitStructuredTemplateBody ==
    /\ ctl # <<>>
    /\ Top.fn = "visitStructuredTemplateBody"
    /\ reg.st \in {"idle", "return"}
    /\ UNCHANGED <<templatesVars, generatorVars>>
    /\ UNCHANGED <<templateMap, lgOptions, targets, evaluationTargetStack, outcome>>
    /\ IF Top.idx > Len(Top.rules) THEN
           /\ reg.st = "idle"
           /\ ctl' = Popped
           /\ reg' = Return(Obj(Top.acc))
       ELSE
           LET body == Top.rules[Top.idx]
               isKVPairBody == body.stat = "KV"
           IN
           IF reg.st = "idle" /\ HasExpression(body) THEN
               /\ Len(ctl) < MaxCtl
               /\ ctl' = Append(ctl, ExpressionAct("evalExpression", body.exp))
               /\ reg' = reg
           ELSE IF isKVPairBody THEN
               LET property == ToLowerCase(body.key)
                   value == IF reg.st = "return" THEN reg.val ELSE Str(body.text)
               IN
               /\ ctl' = ReplaceTop([Top EXCEPT !.acc = SetProperty(@, property, value),
                                                !.idx = @ + 1])
               /\ reg' = Idle
           ELSE
               LET propertyObject == reg.val
               IN
               /\ reg.st = "return"
               /\ ctl' = ReplaceTop([Top EXCEPT
                          !.acc = IF SameStructureType(propertyObject, Top.typeName)
                                  THEN MergeKeys(@, propertyObject.v)
                                  ELSE @,
                          !.idx = @ + 1])
               /\ reg' = Idle

-----------------------------------------------------------------------------
(* Exceptions leave the methods that do not catch them                     *)

Catches(a) == a.fn \in {"evalExpression", "evalExpressionInCondition"} /\ a.pc = "awaiting"

Unwind ==
    /\ reg.st = "throw"
    /\ ctl # <<>>
    /\ ~Catches(Top)
    /\ ctl' = Popped
    /\ targets' = Collect(targets, evaluationTargetStack, Popped)
    /\ UNCHANGED <<templatesVars, generatorVars>>
    /\ UNCHANGED <<templateMap, lgOptions, evaluationTargetStack, reg, outcome>>

-----------------------------------------------------------------------------
(* The host: Templates.evaluate                                            *)

NewLineChar == "\n"

\* the scope the host evaluates with
HostScope == PlainObject(<< <<"x", Str(<<"u">>)>>, <<"k", Str(<<"constructor">>)>> >>)

\* names the host may ask for: the templates, a name marked for
\* re-execution, an unknown name, an inherited key, the empty name and the
\* bare marker
HostNames ==
    {NameA, Bang(NameA), <<"Z">>, <<"constructor">>, <<>>, <<ReExecuteSuffix>>}

\* new Evaluator(...).evaluateTemplate(templateName, scope)
Evaluate ==
    /\ reg.st = "idle"
    /\ ctl = <<>>
    /\ \E inputTemplateName \in HostNames : reg' = CallOf(inputTemplateName, HostScope)
    /\ evaluationTargetStack' = <<>>
    /\ targets' = <<>>
    /\ outcome' = Idle
    /\ UNCHANGED <<templatesVars, generatorVars>>
    /\ UNCHANGED <<templateMap, lgOptions, ctl>>

\* the call comes back to Templates.evaluate, which applies the line-break
\* style to what it got
Complete ==
    /\ reg.st \in {"return", "throw"}
    /\ ctl = <<>>
    /\ outcome' = IF reg.st = "return" THEN Return(LineBreak(lgOptions, reg.val)) ELSE reg
    /\ reg' = Idle
    /\ UNCHANGED <<templatesVars, generatorVars>>
    /\ UNCHANGED <<templateMap, lgOptions, targets, evaluationTargetStack, ctl>>

-----------------------------------------------------------------------------
(* Templates (templates.ts): the text of an LG file.  `content` is held as *)
(* its lines, so joining lines with '\r\n' is concatenation and            *)
(* TemplateExtensions.readLine gives the lines back; the empty string is   *)
(* one empty line.                                                         *)

\* how many lines the content may grow to
MaxLines == 5

BlankLine == [kind |-> "blank", key |-> <<>>, value |-> <<>>, parens |-> FALSE,
              parameters |-> <<>>]
\* > !# key=value
OptionLine(key, value) == [BlankLine EXCEPT !.kind = "option", !.key = key, !.value = value]
\* [id](id)
ImportLine(id) == [BlankLine EXCEPT !.kind = "import", !.key = id]
\* # name   or   # name(p1, p2)
NameLine(name, parens, parameters) ==
    [BlankLine EXCEPT !.kind = "name", !.key = name, !.parens = parens,
                      !.parameters = parameters]
\* - text
BodyLine(text) == [BlankLine EXCEPT !.kind = "body", !.value = text]

\* a string argument of the host: undefined, or a text of some lines
NoText == [defined |-> FALSE, lines |-> <<>>]
TextOf(lines) == [defined |-> TRUE, lines |-> lines]
\* a parameter list argument: undefined, or a list of names
NoParameters == [defined |-> FALSE, list |-> <<>>]
ParametersOf(list) == [defined |-> TRUE, list |-> list]

namespaceKey == "@namespace"
exportsKey == "@exports"

Diagnostic(severity, line) == [severity |-> severity, line |-> line]

\* a file id: whether the path is absolute, and basename(id).split('.')[0]
FileId(absolute, stem) == [absolute |-> absolute, stem |-> stem]
NoId == FileId(FALSE, <<>>)

\* no import resolver, or one that resolves every import to `file`
NoResolver == [defined |-> FALSE, items |-> <<>>, diagnostics |-> <<>>]
ResolverTo(items, diagnostics) ==
    [defined |-> TRUE, items |-> items, diagnostics |-> diagnostics]

\* an expression parser argument: undefined, or the parser the host made;
\* and the parser that `new ExpressionParser()` makes
NoParser == "undefined"
HostParser == "host"
NewExpressionParser == "new ExpressionParser()"

\* line 91: expressionParser || new ExpressionParser()
ParserOrNew(expressionParser) ==
    IF expressionParser = NoParser THEN NewExpressionParser ELSE expressionParser

\* the constructor with no arguments: lines 77-96
NewTemplates ==
    [items |-> <<>>, imports |-> <<>>, diagnostics |-> <<>>, references |-> <<>>,
     content |-> <<BlankLine>>, id |-> NoId, importResolver |-> NoResolver,
     options |-> <<>>, expressionParser |-> ParserOrNew(NoParser)]

-----------------------------------------------------------------------------
(* TemplatesParser.parseText, as the specification describes it: a name    *)
(* line begins a template, which owns the lines up to the next name line;  *)
(* a name defined a second time is an Error diagnostic and the first       *)
(* definition stays; option and import lines are collected for the file.   *)

IsNameLine(content, i) == content[i].kind = "name"

\* the last line a template that starts at line i owns
StopLine(content, i) ==
    IF \E j \in (i + 1)..Len(content) : IsNameLine(content, j)
    THEN (CHOOSE j \in (i + 1)..Len(content) :
              /\ IsNameLine(content, j)
              /\ \A k \in (i + 1)..(j - 1) : ~IsNameLine(content, k)) - 1
    ELSE Len(content)

SelectLines(content, from, to, kind) ==
    SelectSeq(SubSeq(content, from, to), LAMBDA line : line.kind = kind)

\* the template that starts at line i; sourceRange.range lines count from 1
ParsedTemplate(content, i) ==
    LET stop == StopLine(content, i)
        candidates == SelectLines(content, i + 1, stop, "body")
    IN [name |-> content[i].key,
        parameters |-> content[i].parameters,
        templateBodyParseTree |->
            NormalBody([c \in 1..Len(candidates) |-> <<Text(candidates[c].value)>>]),
        sourceRange |-> [start |-> i, end |-> stop]]

DefinedBefore(content, i) ==
    \E j \in 1..(i - 1) : IsNameLine(content, j) /\ content[j].key = content[i].key

RECURSIVE ParseItems(_, _)
ParseItems(content, i) ==
    IF i > Len(content) THEN <<>>
    ELSE IF IsNameLine(content, i) /\ ~DefinedBefore(content, i)
    THEN <<ParsedTemplate(content, i)>> \o ParseItems(content, i + 1)
    ELSE ParseItems(content, i + 1)

RECURSIVE ParseDiagnostics(_, _)
ParseDiagnostics(content, i) ==
    IF i > Len(content) THEN <<>>
    ELSE IF IsNameLine(content, i) /\ DefinedBefore(content, i)
    THEN <<Diagnostic("Error", i)>> \o ParseDiagnostics(content, i + 1)
    ELSE ParseDiagnostics(content, i + 1)

\* the Templates a resolved import is parsed into
Reference(resolver) ==
    [NewTemplates EXCEPT !.items = resolver.items, !.diagnostics = resolver.diagnostics]

ParseWith(content, id, importResolver, expressionParser) ==
    LET imports == SelectLines(content, 1, Len(content), "import")
        options == SelectLines(content, 1, Len(content), "option")
    IN [items |-> ParseItems(content, 1),
        expressionParser |-> ParserOrNew(expressionParser),
        imports |-> [i \in 1..Len(imports) |-> imports[i].key],
        diagnostics |-> ParseDiagnostics(content, 1),
        references |-> IF imports # <<>> /\ importResolver.defined
                       THEN <<Reference(importResolver)>> ELSE <<>>,
        content |-> content,
        id |-> id,
        importResolver |-> importResolver,
        options |-> [i \in 1..Len(options) |-> [key |-> options[i].key,
                                                value |-> options[i].value]]]

\* TemplatesParser.parseText called with three arguments, as the edit
\* operations call it (lines 279, 300, 320): the fourth is undefined
Parse(content, id, importResolver) == ParseWith(content, id, importResolver, NoParser)

\* new EvaluationOptions(options): @strict and @lineBreakStyle
EvaluationOptions(options) ==
    [strictMode |-> \E i \in 1..Len(options) :
                        options[i].key = "@strict" /\ options[i].value = <<"true">>,
     LineBreakStyle |-> IF \E i \in 1..Len(options) :
                               /\ options[i].key = "@linebreakstyle"
                               /\ options[i].value = <<"markdown">>
                        THEN "markdown" ELSE "default"]

-----------------------------------------------------------------------------
(* Templates: getters and private helpers                                  *)

RECURSIVE ConcatItems(_)
ConcatItems(refs) == IF refs = <<>> THEN <<>> ELSE Head(refs).items \o ConcatItems(Tail(refs))
RECURSIVE ConcatDiagnostics(_)
ConcatDiagnostics(refs) ==
    IF refs = <<>> THEN <<>> ELSE Head(refs).diagnostics \o ConcatDiagnostics(Tail(refs))

\* the objects a list holds: two objects are the same object only if they
\* are held at the same place of the same collection (0 is the collection
\* itself, j its j-th reference)
Objects(list, owner) ==
    [i \in 1..Len(list) |-> [owner |-> owner, at |-> i, object |-> list[i]]]
ItemObjects(file) ==
    Flatten(<<Objects(file.items, 0)>> \o
            [j \in 1..Len(file.references) |-> Objects(file.references[j].items, j)])
DiagnosticObjects(file) ==
    Flatten(<<Objects(file.diagnostics, 0)>> \o
            [j \in 1..Len(file.references) |-> Objects(file.references[j].diagnostics, j)])

\* Array.from(new Set(result)): the first occurrence of every object, in order
RECURSIVE ArrayFromSet(_)
ArrayFromSet(result) ==
    IF result = <<>> THEN <<>>
    ELSE LET kept == ArrayFromSet(Front(result))
         IN IF \E i \in DOMAIN kept : kept[i] = Last(result)
            THEN kept ELSE Append(kept, Last(result))

\* a list of all templates that keeps one template for each name
allTemplates_OnePerName(file) ==
    LET result == file.items \o ConcatItems(file.references)
        first == {i \in DOMAIN result :
                     \A j \in 1..(i - 1) : result[j].name # result[i].name}
    IN [k \in 1..Cardinality(first) |->
           result[CHOOSE i \in first : Cardinality({j \in first : j < i}) = k - 1]]

\* lines 146-150
allTemplates(file) ==
    LET result == ArrayFromSet(ItemObjects(file))
    IN [i \in DOMAIN result |-> result[i].object]

\* a collection that looks at its own diagnostics only
allDiagnostics_OwnOnly(file) == file.diagnostics

\* lines 155-159
allDiagnostics(file) ==
    LET result == ArrayFromSet(DiagnosticObjects(file))
    IN [i \in DOMAIN result |-> result[i].object]

\* lines 377-384: the error thrown, if any
checkErrors(file) ==
    LET errors == SelectSeq(allDiagnostics(file), LAMBDA u : u.severity = "Error")
    IN IF Len(errors) # 0 THEN Err("diagnostics", <<>>, <<>>) ELSE NoErr

\* keyBy(templates, t => t.name): a later template takes the key of an earlier one
KeyBy(templates) ==
    [name \in {templates[i].name : i \in DOMAIN templates} |->
        templates[CHOOSE i \in DOMAIN templates :
                      /\ templates[i].name = name
                      /\ \A j \in DOMAIN templates : templates[j].name = name => j <= i]]

\* a find that skips the first template
FindTemplate_SkipsFirst(file, templateName) ==
    IF \E i \in 2..Len(file.items) : file.items[i].name = templateName
    THEN [found |-> TRUE,
          template |-> file.items[CHOOSE i \in 2..Len(file.items) :
                                      file.items[i].name = templateName]]
    ELSE [found |-> FALSE, template |-> Template(templateName, <<>>, NoBody)]

\* a find that looks among the imported templates too
FindTemplate_AmongAll(file, templateName) ==
    LET all == allTemplates(file) IN
    IF \E i \in DOMAIN all : all[i].name = templateName
    THEN [found |-> TRUE,
          template |-> all[CHOOSE i \in DOMAIN all :
                               /\ all[i].name = templateName
                               /\ \A j \in 1..(i - 1) : all[j].name # templateName]]
    ELSE [found |-> FALSE, template |-> Template(templateName, <<>>, NoBody)]

\* this.items.find(u => u.name === templateName)
FindTemplate(file, templateName) ==
    IF \E i \in DOMAIN file.items : file.items[i].name = templateName
    THEN [found |-> TRUE,
          template |-> file.items[CHOOSE i \in DOMAIN file.items :
                               /\ file.items[i].name = templateName
                               /\ \A j \in 1..(i - 1) : file.items[j].name # templateName]]
    ELSE [found |-> FALSE, template |-> Template(templateName, <<>>, NoBody)]

\* lines 356-363
buildTemplateNameLine(templateName, parameters) ==
    IF ~parameters.defined THEN NameLine(templateName, FALSE, <<>>)
    ELSE NameLine(templateName, TRUE, parameters.list)

\* lines 343-354: a body line that starts with '#' gets '- ' in front
convertTemplateBody(templateBody) ==
    IF ~templateBody.defined \/ templateBody.lines = <<>> THEN <<BlankLine>>
    ELSE [i \in 1..Len(templateBody.lines) |->
             LET u == templateBody.lines[i] IN
             IF u.kind = "name" THEN BodyLine(<<"# ">> \o u.key) ELSE u]

\* destList.join(newLine) renders an undefined element as the empty string
JoinedText(replaceString) ==
    IF replaceString.defined THEN replaceString.lines ELSE <<BlankLine>>

\* a splice that keeps the last line of the range
replaceRangeContent_KeepsLastLine(originList, startLine, stopLine, replaceString) ==
    IF startLine < 0 \/ startLine > stopLine \/ stopLine >= Len(originList)
    THEN [error |-> Err("indexOutOfRange", <<>>, <<>>), content |-> originList]
    ELSE [error |-> NoErr,
          content |-> SubSeq(originList, 1, startLine) \o JoinedText(replaceString)
                      \o SubSeq(originList, stopLine + 1, Len(originList))]

\* lines 329-341; startLine and stopLine count from 0
replaceRangeContent(originList, startLine, stopLine, replaceString) ==
    IF startLine < 0 \/ startLine > stopLine \/ stopLine >= Len(originList)
    THEN [error |-> Err("indexOutOfRange", <<>>, <<>>), content |-> originList]
    ELSE [error |-> NoErr,
          content |-> SubSeq(originList, 1, startLine) \o JoinedText(replaceString)
                      \o SubSeq(originList, stopLine + 2, Len(originList))]

\* lines 400-414: the value of the last option with this key, if any
extractOptionByKey(nameOfKey, options) ==
    LET hits == SelectSeq(options, LAMBDA option : option.key = nameOfKey)
    IN IF hits = <<>> THEN [defined |-> FALSE, value |-> <<>>]
       ELSE [defined |-> TRUE, value |-> Last(hits).value]

\* lines 416-427
extractNamespace(file) ==
    LET result == extractOptionByKey(namespaceKey, file.options) IN
    IF result.defined /\ result.value # <<>> THEN [error |-> NoErr, value |-> result.value]
    ELSE IF file.id.absolute THEN [error |-> NoErr, value |-> file.id.stem]
    ELSE [error |-> Err("namespaceRequired", <<>>, <<>>), value |-> <<>>]

\* lines 429-440: the names listed by @exports
getGlobalFunctionTable(options) ==
    LET value == extractOptionByKey(exportsKey, options)
    IN IF value.defined THEN value.value ELSE <<>>

\* lines 386-398: the registry after the loop, and the error that ended it
RECURSIVE injectToExpressionFunction(_, _)
injectToExpressionFunction(totalTemplates, registry) ==
    IF totalTemplates = <<>> THEN [error |-> NoErr, functions |-> registry]
    ELSE LET curTemplates == Head(totalTemplates)
             globalFuncs == getGlobalFunctionTable(curTemplates.options)
             found == {templateName \in Range(globalFuncs) :
                          \E i \in DOMAIN curTemplates.items :
                              curTemplates.items[i].name = templateName}
             namespace == extractNamespace(curTemplates)
         IN IF found = {} THEN injectToExpressionFunction(Tail(totalTemplates), registry)
            ELSE IF namespace.error # NoErr
            THEN [error |-> namespace.error, functions |-> registry]
            ELSE injectToExpressionFunction(Tail(totalTemplates),
                     registry \cup {[name |-> namespace.value \o <<".">> \o templateName,
                                     templateName |-> templateName] :
                                        templateName \in found})

-----------------------------------------------------------------------------
(* Templates: what the host calls.  A call that evaluates leaves its       *)
(* activation on the control stack until the evaluator comes back.         *)

HostIdle == reg.st = "idle" /\ ctl = <<>>

TemplatesAct(fn, templateName) == [Act0 EXCEPT !.fn = fn, !.name = templateName]

NoEdit == [op |-> "none", templateName |-> <<>>, newTemplateName |-> <<>>,
           parameters |-> NoParameters, templateBody |-> NoText,
           st |-> "return", err |-> NoErr, parsed |-> FALSE]
Edit(op, templateName, newTemplateName, parameters, templateBody) ==
    [NoEdit EXCEPT !.op = op, !.templateName = templateName,
                   !.newTemplateName = newTemplateName, !.parameters = parameters,
                   !.templateBody = templateBody]

\* names the host edits and asks for
NameT == <<"t">>
NameU == <<"u">>
NameR == <<"r">>
NewNames == {NameT, NameU}
EditNames == NewNames \cup {NameR}
DeleteNames == EditNames \cup {<<"constructor">>}

\* what the host writes for a template: no parameter list and the body
\* "- hi", or the parameter p and the body "- ho" / "# u"
Writings ==
    {[parameters |-> NoParameters, templateBody |-> TextOf(<<BodyLine(<<"hi">>)>>)],
     [parameters |-> ParametersOf(<<"p">>),
      templateBody |-> TextOf(<<BodyLine(<<"ho">>), NameLine(NameU, FALSE, <<>>)>>)]}

\* what the imported file r parses into: a template r, and its diagnostics
ImportedItems ==
    <<[name |-> NameR, parameters |-> <<>>,
       templateBodyParseTree |-> NormalBody(<< <<Text(<<"ref">>)>> >>),
       sourceRange |-> [start |-> 1, end |-> 2]]>>
Resolvers ==
    {ResolverTo(ImportedItems, d) :
        d \in {<<>>, <<Diagnostic("Warning", 1)>>, <<Diagnostic("Error", 1)>>}}

Source(content, id, importResolver) ==
    [content |-> content, id |-> id, importResolver |-> importResolver,
     expressionParser |-> NoParser]

\* the files the host parses
Sources ==
    {   \* > !# @namespace=ns / > !# @exports=t / # t(p) / - hi, parsed with an
        \* expression parser of the host
        [Source(<<OptionLine(namespaceKey, <<"ns">>), OptionLine(exportsKey, <<NameT>>),
                  NameLine(NameT, TRUE, <<"p">>), BodyLine(<<"hi">>)>>,
                FileId(FALSE, <<"main">>), NoResolver)
            EXCEPT !.expressionParser = HostParser]
    } \cup
    {   \* > !# @exports=t,u / # t / - hi
        Source(<<OptionLine(exportsKey, <<NameT, NameU>>), NameLine(NameT, FALSE, <<>>),
                 BodyLine(<<"hi">>)>>,
               id, NoResolver) : id \in {FileId(TRUE, <<"main">>), FileId(FALSE, <<"main">>)}
    } \cup
    {   \* [r](r) / # t / - hi
        Source(<<ImportLine(NameR), NameLine(NameT, FALSE, <<>>), BodyLine(<<"hi">>)>>,
               FileId(TRUE, <<"main">>), importResolver) : importResolver \in Resolvers
    }

\* Templates.parseText: lines 181-183
parseText ==
    /\ HostIdle
    /\ lgFile = NewTemplates
    /\ \E source \in Sources :
          LET templates == ParseWith(source.content, source.id, source.importResolver,
                                     source.expressionParser)
              injected == injectToExpressionFunction(<<templates>> \o templates.references,
                                                     functions)
          IN /\ functions' = injected.functions
             /\ IF injected.error # NoErr
                THEN /\ lgFile' = lgFile
                     /\ edit' = [Edit("parseText", <<>>, <<>>, NoParameters, NoText)
                                    EXCEPT !.st = "throw", !.err = injected.error,
                                           !.parsed = TRUE]
                ELSE /\ lgFile' = templates
                     /\ edit' = [Edit("parseText", <<>>, <<>>, NoParameters, NoText)
                                    EXCEPT !.parsed = TRUE]
    /\ outcome' = Idle
    /\ UNCHANGED <<templateMap, lgOptions, targets, evaluationTargetStack, ctl, reg,
                   generatorVars>>

\* lines 365-375: every field is taken from the parse
initialize(templates) == templates

\* lines 291-303
addTemplate ==
    /\ HostIdle
    /\ \E templateName \in EditNames, w \in Writings :
          LET parameters == w.parameters
              templateBody == w.templateBody
              call == Edit("addTemplate", templateName, <<>>, parameters, templateBody)
              newContent == lgFile.content
                            \o <<buildTemplateNameLine(templateName, parameters)>>
                            \o convertTemplateBody(templateBody)
          IN IF FindTemplate(lgFile, templateName).found
             THEN /\ edit' = [call EXCEPT !.st = "throw",
                                          !.err = Err("templateExist", templateName, <<>>)]
                  /\ lgFile' = lgFile
             ELSE /\ Len(newContent) <= MaxLines
                  /\ lgFile' = initialize(Parse(newContent, lgFile.id, lgFile.importResolver))
                  /\ edit' = [call EXCEPT !.parsed = TRUE]
    /\ outcome' = Idle
    /\ UNCHANGED <<templateMap, lgOptions, targets, evaluationTargetStack, ctl, reg,
                   functions, generatorVars>>

\* lines 275-279 and 316-320: splice and reparse
SpliceAndParse(file, template, replaceString) ==
    LET startLine == template.sourceRange.start - 1
        stopLine == template.sourceRange.end - 1
        spliced == replaceRangeContent(file.content, startLine, stopLine, replaceString)
    IN IF spliced.error # NoErr THEN [error |-> spliced.error, file |-> file]
       ELSE [error |-> NoErr,
             file |-> initialize(Parse(spliced.content, file.id, file.importResolver))]

\* lines 265-282
updateTemplate ==
    /\ HostIdle
    /\ \E templateName \in EditNames, newTemplateName \in NewNames, w \in Writings :
          LET parameters == w.parameters
              templateBody == w.templateBody
              call == Edit("updateTemplate", templateName, newTemplateName, parameters,
                           templateBody)
              hit == FindTemplate(lgFile, templateName)
              content == <<buildTemplateNameLine(newTemplateName, parameters)>>
                         \o convertTemplateBody(templateBody)
              done == SpliceAndParse(lgFile, hit.template, TextOf(content))
          IN IF ~hit.found
             THEN /\ edit' = call
                  /\ lgFile' = lgFile
             ELSE IF done.error # NoErr
             THEN /\ edit' = [call EXCEPT !.st = "throw", !.err = done.error]
                  /\ lgFile' = lgFile
             ELSE /\ Len(done.file.content) <= MaxLines
                  /\ lgFile' = done.file
                  /\ edit' = [call EXCEPT !.parsed = TRUE]
    /\ outcome' = Idle
    /\ UNCHANGED <<templateMap, lgOptions, targets, evaluationTargetStack, ctl, reg,
                   functions, generatorVars>>

\* lines 310-323
deleteTemplate ==
    /\ HostIdle
    /\ \E templateName \in DeleteNames :
          LET call == Edit("deleteTemplate", templateName, <<>>, NoParameters, NoText)
              hit == FindTemplate(lgFile, templateName)
              done == SpliceAndParse(lgFile, hit.template, NoText)
          IN IF ~hit.found
             THEN /\ edit' = call
                  /\ lgFile' = lgFile
             ELSE IF done.error # NoErr
             THEN /\ edit' = [call EXCEPT !.st = "throw", !.err = done.error]
                  /\ lgFile' = lgFile
             ELSE /\ lgFile' = done.file
                  /\ edit' = [call EXCEPT !.parsed = TRUE]
    /\ outcome' = Idle
    /\ UNCHANGED <<templateMap, lgOptions, targets, evaluationTargetStack, ctl, reg,
                   functions, generatorVars>>

\* names the host evaluates
QueryNames == DeleteNames \cup {<<"Z">>}

\* new Evaluator(templates, ..., opt), then evaluateTemplate(templateName, scope)
StartEvaluator(fn, templates, opt, templateName, scope) ==
    /\ ctl' = <<TemplatesAct(fn, templateName)>>
    /\ templateMap' = KeyBy(templates)
    /\ lgOptions' = opt
    /\ targets' = <<>>
    /\ evaluationTargetStack' = <<>>
    /\ reg' = CallOf(templateName, scope)

\* the call fails before an evaluator is made
FailEarly(fn, templateName, err) ==
    /\ ctl' = <<TemplatesAct(fn, templateName)>>
    /\ reg' = Throw(err)
    /\ UNCHANGED <<templateMap, lgOptions, targets, evaluationTargetStack>>

\* lines 191-196
evaluate ==
    /\ HostIdle
    /\ \E templateName \in QueryNames :
          IF checkErrors(lgFile) # NoErr
          THEN FailEarly("evaluate", templateName, checkErrors(lgFile))
          ELSE StartEvaluator("evaluate", allTemplates(lgFile),
                              EvaluationOptions(lgFile.options), templateName, HostScope)
    /\ outcome' = Idle
    /\ UNCHANGED <<templatesVars, generatorVars>>

\* what Expander.expandTemplate and Analyzer.analyzeTemplate hand back
Delegated == {Return(Str(<<"delegated">>)), Throw(Err("delegated", <<>>, <<>>))}

\* lines 211-217
expandTemplate ==
    /\ HostIdle
    /\ \E templateName \in QueryNames :
          IF checkErrors(lgFile) # NoErr
          THEN FailEarly("expandTemplate", templateName, checkErrors(lgFile))
          ELSE /\ ctl' = <<TemplatesAct("expandTemplate", templateName)>>
               /\ reg' \in Delegated
               /\ UNCHANGED <<templateMap, lgOptions, targets, evaluationTargetStack>>
    /\ outcome' = Idle
    /\ UNCHANGED <<templatesVars, generatorVars>>

\* lines 224-229
analyzeTemplate ==
    /\ HostIdle
    /\ \E templateName \in QueryNames :
          IF checkErrors(lgFile) # NoErr
          THEN FailEarly("analyzeTemplate", templateName, checkErrors(lgFile))
          ELSE /\ ctl' = <<TemplatesAct("analyzeTemplate", templateName)>>
               /\ reg' \in Delegated
               /\ UNCHANGED <<templateMap, lgOptions, targets, evaluationTargetStack>>
    /\ outcome' = Idle
    /\ UNCHANGED <<templatesVars, generatorVars>>

fakeTemplateId == <<"__temp__">>

\* TemplatesParser.parseTextWithRef: the inline text as the one template of
\* a file that refers to this one and to all this one refers to
parseTextWithRef(inlineStr, file) ==
    [NewTemplates EXCEPT
        !.items = <<[name |-> fakeTemplateId, parameters |-> <<>>,
                     templateBodyParseTree |-> NormalBody(<< <<Text(inlineStr)>> >>),
                     sourceRange |-> [start |-> 1, end |-> 2]]>>,
        !.references = <<file>> \o file.references,
        !.id = file.id,
        !.options = file.options]

\* lines 236-255
evaluateText ==
    /\ HostIdle
    /\ \E inlineStr \in {NoText, TextOf(<<"hi">>)} :
          IF ~inlineStr.defined
          THEN FailEarly("evaluateText", fakeTemplateId, Err("inlineEmpty", <<>>, <<>>))
          ELSE IF checkErrors(lgFile) # NoErr
          THEN FailEarly("evaluateText", fakeTemplateId, checkErrors(lgFile))
          ELSE LET newTemplates == parseTextWithRef(inlineStr.lines, lgFile)
                   evalOpt == EvaluationOptions(lgFile.options)
               IN IF checkErrors(newTemplates) # NoErr
                  THEN FailEarly("evaluateText", fakeTemplateId, checkErrors(newTemplates))
                  ELSE StartEvaluator("evaluateText", allTemplates(newTemplates), evalOpt,
                                      fakeTemplateId, HostScope)
    /\ outcome' = Idle
    /\ UNCHANGED <<templatesVars, generatorVars>>

\* arguments an outside expression calls an exported function with
GlobalArguments == {<<>>, <<Str(<<"v">>)>>}

\* lines 442-447, called through Expression.functions: the evaluator is new,
\* so constructScope finds no current target
globalTemplateFunction ==
    /\ HostIdle
    /\ \E f \in functions, args \in GlobalArguments :
          LET templates == allTemplates(lgFile)
              newScope == constructScope(KeyBy(templates), f.templateName, args,
                                         currentTarget(<<>>, <<>>))
          IN IF newScope.error # NoErr
             THEN /\ ctl' = <<TemplatesAct("globalTemplateFunction", f.templateName)>>
                  /\ templateMap' = KeyBy(templates)
                  /\ lgOptions' = EvaluationOptions(lgFile.options)
                  /\ targets' = <<>>
                  /\ evaluationTargetStack' = <<>>
                  /\ reg' = Throw(newScope.error)
             ELSE StartEvaluator("globalTemplateFunction", templates,
                                 EvaluationOptions(lgFile.options), f.templateName,
                                 newScope.scope)
    /\ outcome' = Idle
    /\ UNCHANGED <<templatesVars, generatorVars>>

TemplatesMethods ==
    {"evaluate", "expandTemplate", "analyzeTemplate", "evaluateText",
     "globalTemplateFunction"}

\* the call comes back to the method of Templates that made it; evaluate
\* applies the line-break style, lines 197-199
TemplatesReturn ==
    /\ reg.st \in {"return", "throw"}
    /\ Len(ctl) = 1
    /\ Top.fn \in TemplatesMethods
    /\ outcome' = IF reg.st = "return" /\ Top.fn \in {"evaluate", "evaluateText"}
                  THEN Return(LineBreak(lgOptions, reg.val))
                  ELSE reg
    /\ reg' = Idle
    /\ ctl' = <<>>
    \* nothing refers to the evaluator any more
    /\ templateMap' = <<>>
    /\ lgOptions' = EvaluationOptions(<<>>)
    /\ targets' = <<>>
    /\ evaluationTargetStack' = <<>>
    /\ UNCHANGED <<templatesVars, generatorVars>>

-----------------------------------------------------------------------------
(* The templates evaluated.  Every template declares one parameter p; a    *)
(* template's body is one of the shapes below, written in terms of the     *)
(* template after it (n) and the one before it (q) in the cycle A, B, C.   *)

\* a locale is the sequence of the subtags of its lower-cased tag: <<>> is
\* the language-neutral entry '', <<"en", "us">> is en-us
NeutralLocale == <<>>

\* what the host asked the multi-language generator for and what it got
Generated(locale, template, answer) ==
    [locale |-> locale, template |-> template,
     st |-> answer.st, val |-> answer.val, err |-> answer.err]
NotGenerated == Generated(NeutralLocale, <<>>, Idle)

Parameters == <<"p">>

Successor(name) ==
    CASE name = NameA -> NameB
      [] name = NameB -> NameC
      [] name = NameC -> NameA

Chars(c) == Str(<<c>>)

Bodies(self) ==
    LET n == Successor(self)
        q == Successor(Successor(self))
        call(x) == Expr(Call(x, <<>>))
    IN
    {   \* - a
        \* - b\n
        NormalBody(<< <<Text(<<"a">>)>>, <<Text(<<"b">>), Escape(<<NewLineChar>>)>> >>),
        \* - ${n()}
        NormalBody(<< <<call(n)>> >>),
        \* - ${self()}
        NormalBody(<< <<call(self)>> >>),
        \* - ${n()}${n!()}${n()}
        NormalBody(<< <<call(n), call(Bang(n)), call(n)>> >>),
        \* - ${q()}-${n()}
        NormalBody(<< <<call(q), Text(<<"-">>), call(n)>> >>),
        \* - ${n('u')}${n('v')}${n('u')}
        NormalBody(<< <<Expr(Call(n, <<Chars("u")>>)), Expr(Call(n, <<Chars("v")>>)),
                        Expr(Call(n, <<Chars("u")>>))>> >>),
        \* - ${p}
        NormalBody(<< <<Expr(Var("p"))>> >>),
        \* - x${1/0}
        NormalBody(<< <<Text(<<"x">>), Expr(Fail)>> >>),
        \* - ${template('Z')}
        NormalBody(<< <<Expr(TemplateFn(<<"Z">>, <<>>))>> >>),
        \* - ${n('u', 'v')}
        NormalBody(<< <<Expr(Call(n, <<Chars("u"), Chars("v")>>))>> >>),
        \* - ${template(k)}
        NormalBody(<< <<Expr(TemplateFnOf("k", <<>>))>> >>),
        \* - IF: ${q()}
        \*   - t
        \* - ELSE:
        \*   - ${n()}${n()}
        IfElseBody(<< Rule("IF", Call(q, <<>>), << <<Text(<<"t">>)>> >>),
                      Rule("ELSE", NoExp, << <<call(n), call(n)>> >>) >>),
        \* - IF: ${n()}
        \*   - t
        \* - ELSE:
        \*   - e
        IfElseBody(<< Rule("IF", Call(n, <<>>), << <<Text(<<"t">>)>> >>),
                      Rule("ELSE", NoExp, << <<Text(<<"e">>)>> >>) >>),
        \* - IF: ${x}
        \* - ELSEIF: ${p}
        \*   - t
        \* - ELSEIF: ${p}
        \*   - e
        IfElseBody(<< Rule("IF", Var("x"), <<>>),
                      Rule("ELSEIF", Var("p"), << <<Text(<<"t">>)>> >>),
                      Rule("ELSEIF", Var("p"), << <<Text(<<"e">>)>> >>) >>),
        \* - SWITCH: ${p}
        \* - CASE: ${'v'}
        \*   - 1
        \* - CASE: ${x}
        \* - DEFAULT:
        \*   - d
        SwitchCaseBody(<< Rule("SWITCH", Var("p"), <<>>),
                          Rule("CASE", Const(Chars("v")), << <<Text(<<"1">>)>> >>),
                          Rule("CASE", Var("x"), <<>>),
                          Rule("DEFAULT", NoExp, << <<Text(<<"d">>)>> >>) >>),
        \* [T
        \*   text = a
        \*   ${n()}
        \*   ${q()}
        \* ]
        StructuredBody("T", << KeyValueLine("text", NoExp, <<"a">>),
                               ObjectLine(Call(n, <<>>)),
                               ObjectLine(Call(q, <<>>)) >>),
        \* [T
        \*   Text = <self>
        \*   Speak = <self>
        \* ]
        StructuredBody("T", << KeyValueLine("Text", NoExp, self),
                               KeyValueLine("Speak", NoExp, self) >>),
        \* [T
        \*   ${n()}
        \*   constructor = <self>
        \*   Speak = <self>
        \* ]
        StructuredBody("T", << ObjectLine(Call(n, <<>>)),
                               KeyValueLine("constructor", NoExp, self),
                               KeyValueLine("Speak", NoExp, self) >>),
        \* [U
        \*   text = ${x}
        \* ]
        StructuredBody("U", << KeyValueLine("text", Var("x"), <<>>) >>)
    }

Tables ==
    {[name \in TemplateNames |-> Template(name, Parameters, b[name])] :
        b \in [TemplateNames -> UNION {Bodies(k) : k \in TemplateNames}]}

Options == [strictMode : BOOLEAN, LineBreakStyle : {"default", "markdown"}]

Init ==
    /\ templateMap \in {t \in Tables :
            \A name \in TemplateNames : t[name].templateBodyParseTree \in Bodies(name)}
    /\ lgOptions \in Options
    /\ targets = <<>>
    /\ evaluationTargetStack = <<>>
    /\ ctl = <<>>
    /\ reg = Idle
    /\ outcome = Idle
    /\ lgFile = NewTemplates
    /\ functions = {}
    /\ edit = NoEdit
    /\ languageGenerators = <<>>
    /\ generated = NotGenerated

Next ==
    \/ Evaluate
    \/ evaluateTemplate
    \/ evaluateTemplateReturn
    \/ visitNormalTemplateBody
    \/ visitNormalTemplateString
    \/ evalExpression
    \/ evalExpressionReturn
    \/ visitIfElseBody
    \/ visitSwitchCaseBody
    \/ visitStructuredTemplateBody
    \/ Unwind
    \/ Complete

Spec == Init /\ [][Next]_vars

-----------------------------------------------------------------------------
(* The host of a Templates object: it parses a file, edits it and asks     *)
(* for templates.  The bodies it writes are plain text, so of the          *)
(* evaluator only the walk of a normal template takes part.                *)

InitTemplates ==
    /\ templateMap = <<>>
    /\ lgOptions = EvaluationOptions(<<>>)
    /\ targets = <<>>
    /\ evaluationTargetStack = <<>>
    /\ ctl = <<>>
    /\ reg = Idle
    /\ outcome = Idle
    /\ lgFile = NewTemplates
    /\ functions = {}
    /\ edit = NoEdit
    /\ languageGenerators = <<>>
    /\ generated = NotGenerated

NextTemplates ==
    \/ parseText
    \/ addTemplate
    \/ updateTemplate
    \/ deleteTemplate
    \/ evaluate
    \/ expandTemplate
    \/ analyzeTemplate
    \/ evaluateText
    \/ globalTemplateFunction
    \/ TemplatesReturn
    \/ evaluateTemplate
    \/ evaluateTemplateReturn
    \/ visitNormalTemplateBody
    \/ visitNormalTemplateString

SpecTemplates == InitTemplates /\ [][NextTemplates]_vars

-----------------------------------------------------------------------------
(* Language generators: one TemplateEngineLanguageGenerator for each       *)
(* locale, and the multi-language generator that selects among them for    *)
(* the locale of the turn, as the specification describes the selection    *)

LanguageOf(locale) == <<Head(locale)>>

\* the locales the host has generators for, as LGGenerator.test.js sets
\* them up: '', de, en, en-us, en-gb, fr
GeneratorLocales ==
    {NeutralLocale, <<"de">>, <<"en">>, <<"en", "us">>, <<"en", "gb">>, <<"fr">>}

\* the locales a turn may come with: those, an unknown language and an
\* unknown region of a known language
TurnLocales == GeneratorLocales \cup {<<"foo">>, <<"fr", "ca">>}

\* the templates the test asks for
TestTemplates == {<<"test">>, <<"test2">>}

\* new TemplateEngineLanguageGenerator(text, id, resourceMapping), lines
\* 29-50: the generator of a locale holds the templates parsed from its text
TemplateEngineLanguageGenerator(locale, names) == [id |-> locale, lg |-> names]

\* what a generator's template evaluates to: it tells the template and the
\* locale of the generator apart
TextFor(generator, template) == Str(template \o generator.id)

\* a generate that answers with the empty string when the evaluation fails
generate_EmptyOnError(generator, template) ==
    IF template \in generator.lg
    THEN Return(TextFor(generator, template))
    ELSE Return(Str(<<>>))

\* TemplateEngineLanguageGenerator.generate, lines 52-62, for the template
\* text ${template()}: the evaluation's result as a string, or the error of
\* the evaluation thrown again
generate(generator, template) ==
    IF template \in generator.lg
    THEN Return(TextFor(generator, template))
    ELSE Throw(Err("generate", template, <<>>))

\* the fallback chain of a locale: the full tag, the language subtag, the
\* language-neutral entry
FallbackLocales(locale) ==
    IF locale = NeutralLocale THEN <<NeutralLocale>>
    ELSE IF Len(locale) = 1 THEN <<locale, NeutralLocale>>
    ELSE <<locale, LanguageOf(locale), NeutralLocale>>

\* the generators of the chain that exist, in the order of the chain
GeneratorsFor(generators, locale) ==
    LET chain == SelectSeq(FallbackLocales(locale), LAMBDA l : l \in DOMAIN generators)
    IN [i \in DOMAIN chain |-> generators[chain[i]]]

\* the first generator of the list that answers; if none does, or the list
\* is empty, the generation fails
RECURSIVE FirstAnswer(_, _)
FirstAnswer(candidates, template) ==
    IF candidates = <<>> THEN Throw(Err("noGenerator", template, <<>>))
    ELSE IF generate(Head(candidates), template).st = "return"
    THEN generate(Head(candidates), template)
    ELSE FirstAnswer(Tail(candidates), template)

\* MultiLanguageGenerator.generate(turnContext, template, data)
generateForLocale ==
    /\ HostIdle
    /\ \E locale \in TurnLocales, template \in TestTemplates :
           generated' = Generated(locale, template,
                            FirstAnswer(GeneratorsFor(languageGenerators, locale), template))
    /\ UNCHANGED <<templateMap, lgOptions, targets, evaluationTargetStack, ctl, reg,
                   outcome, templatesVars, languageGenerators>>

\* the tables of generators: any of the locales may lack a generator, and a
\* generator has the template test, or test and test2, or neither
GeneratorTables ==
    UNION {[present -> {{}, {<<"test">>}, TestTemplates}] :
               present \in SUBSET GeneratorLocales}

InitGenerators ==
    /\ templateMap = <<>>
    /\ lgOptions = EvaluationOptions(<<>>)
    /\ targets = <<>>
    /\ evaluationTargetStack = <<>>
    /\ ctl = <<>>
    /\ reg = Idle
    /\ outcome = Idle
    /\ lgFile = NewTemplates
    /\ functions = {}
    /\ edit = NoEdit
    /\ \E names \in GeneratorTables :
           languageGenerators =
               [locale \in DOMAIN names |->
                   TemplateEngineLanguageGenerator(locale, names[locale])]
    /\ generated = NotGenerated

NextGenerators == generateForLocale

SpecGenerators == InitGenerators /\ [][NextGenerators]_vars

-----------------------------------------------------------------------------
(* What the properties below talk about                                    *)

\* evaluateTemplate is about to run for a non-empty name
Calling == reg.st = "call" /\ reg.name # <<>>

\* the name called, without the re-execute marker
CalledName ==
    IF Last(reg.name) = ReExecuteSuffix THEN Front(reg.name) ELSE reg.name
CalledWithMarker == Last(reg.name) = ReExecuteSuffix

\* template names of the frames on the evaluation stack, bottom to top
StackNames ==
    [i \in 1..Len(evaluationTargetStack) |->
        targets[evaluationTargetStack[i]].templateName]

\* the evaluateTemplate invocations in progress, outermost first
InProgress == SelectSeq(ctl, LAMBDA a : a.fn = "evaluateTemplate")
InvocationOrder == [i \in 1..Len(InProgress) |-> InProgress[i].name]

\* the call is for a template that has a frame on the stack
ReEntering == Calling /\ \E i \in DOMAIN StackNames : StackNames[i] = CalledName

\* the identity under which the call would be cached
CalledId ==
    <<CalledName, reg.scope.globalMemory,
      IF reg.scope.cm THEN reg.scope.localMemory ELSE <<>> >>

\* the frame on top of the stack holds a result for the call
Cached ==
    /\ Calling
    /\ evaluationTargetStack # <<>>
    /\ \E e \in targets[Last(evaluationTargetStack)].evaluatedChildren : e.id = CalledId
CachedValue ==
    (CHOOSE e \in targets[Last(evaluationTargetStack)].evaluatedChildren :
        e.id = CalledId).value

\* a loop-detected error has just been raised by evaluateTemplate
LoopRaised ==
    /\ reg.st = "throw"
    /\ reg.err.kind = "loopDetected"
    /\ reg.err.trail = <<>>
    /\ ctl # <<>>
    /\ Top.fn \in {"evalExpression", "evalExpressionInCondition"}
    /\ Top.pc = "awaiting"

-----------------------------------------------------------------------------
(* Loop detection                                                          *)

\* C1: a call to evaluateTemplate for a name that already has a frame on
\* the evaluation stack fails with a loop-detected error; the call pushes
\* no frame (the stack keeps its frames and its length, no frame is
\* created) and starts no part of the template's body.
C1_LoopDetectedBeforeAnyPush ==
    [][ReEntering =>
          /\ reg'.st = "throw"
          /\ reg'.err.kind = "loopDetected"
          /\ Len(evaluationTargetStack') = Len(evaluationTargetStack)
          /\ Range(evaluationTargetStack') = Range(evaluationTargetStack)
          /\ targets' = targets
          /\ ctl' = ctl]_vars

\* C1 witness: the loop error has been raised at depth two or more, for a
\* template that is not the immediate caller
C1_Witness ==
    /\ LoopRaised
    /\ Len(evaluationTargetStack) >= 2
    /\ Len(InProgress) >= 2
    /\ Last(InProgress).name # Top.exp.fn

\* C2: the chain reported by the loop error lists the templates in
\* invocation order, the outermost first and the most recent call last.
C2_ChainInInvocationOrder ==
    [][ReEntering => reg'.err.chain = InvocationOrder]_vars

\* C3 as stated: the chain reported by the loop error has the re-entered
\* template name at both ends.
C3_ReenteredNameAtBothEnds ==
    [][ReEntering =>
          /\ reg'.err.chain # <<>>
          /\ Head(reg'.err.chain) = CalledName
          /\ Last(reg'.err.chain) = CalledName]_vars

\* C3 amended: a call for a name that has a frame on the evaluation stack
\* fails with a loop error whose chain has one entry per frame on the
\* stack and names the re-entered template exactly once; the call that was
\* refused is not appended to the chain.
C3_ReenteredNameOnceInChain ==
    [][ReEntering =>
          /\ reg'.st = "throw"
          /\ reg'.err.kind = "loopDetected"
          /\ Len(reg'.err.chain) = Len(evaluationTargetStack)
          /\ Cardinality({i \in DOMAIN reg'.err.chain :
                             reg'.err.chain[i] = CalledName}) = 1]_vars

\* C3 witness: a loop error whose chain has three entries and the
\* re-entered name strictly inside it
C3_Witness ==
    /\ LoopRaised
    /\ Len(reg.err.chain) = 3
    /\ reg.err.chain[2] = Top.exp.fn
    /\ reg.err.chain[1] # Top.exp.fn
    /\ reg.err.chain[3] # Top.exp.fn

-----------------------------------------------------------------------------
(* Stack discipline                                                        *)

\* C4: when an evaluateTemplate invocation that pushed a frame is left, by
\* return or by a thrown error, its frame is no longer on the stack.
C4_FrameOffStackAtExit ==
    [][(/\ ctl # <<>>
        /\ Top.fn = "evaluateTemplate"
        /\ Len(ctl') < Len(ctl))
       => Top.me \notin Range(evaluationTargetStack')]_vars

-----------------------------------------------------------------------------
(* Memoization                                                             *)

C6_ServedFromCallersFrame ==
    [][(Calling /\ reg'.st = "return") =>
          /\ InProgress # <<>>
          /\ evaluationTargetStack # <<>>
          /\ Last(evaluationTargetStack) = Last(InProgress).me]_vars

\* C7: a call with the re-execute marker evaluates the template's body even
\* when the frame on top of the stack holds a cached result for it: a frame
\* is pushed and the body is started.
C7_MarkerForcesEvaluation ==
    [][(Cached /\ CalledWithMarker) =>
          /\ reg'.st = "idle"
          /\ Len(evaluationTargetStack') = Len(evaluationTargetStack) + 1
          /\ Len(ctl') = Len(ctl) + 2
          /\ ctl'[Len(ctl) + 1].fn = "evaluateTemplate"
          /\ ctl'[Len(ctl) + 1].name = CalledName]_vars

-----------------------------------------------------------------------------
(* Unknown templates                                                       *)

\* C8: a call for a name that is not a defined template raises the
\* template-not-found error; the evaluation stack and every frame's cache
\* are as they were before the call.
C8_UnknownNameRaisesNotFound ==
    [][(Calling /\ CalledName \notin DOMAIN templateMap) =>
          /\ reg'.st = "throw"
          /\ reg'.err.kind = "templateNotExist"
          /\ UNCHANGED <<evaluationTargetStack, targets, ctl>>]_vars


-----------------------------------------------------------------------------
(* Conditional and switch templates                                        *)

\* visitIfElseBody is at a branch whose condition has come out as b; a
\* branch without an expression is an ELSE and counts as truthy
IfElseAt ==
    /\ ctl # <<>>
    /\ Top.fn = "visitIfElseBody"
    /\ Top.idx <= Len(Top.rules)
ConditionIs(b) ==
    /\ IfElseAt
    /\ \/ reg.st = "return" /\ reg.val.t = "boolean" /\ reg.val.v = <<"true">> /\ b
       \/ reg.st = "return" /\ reg.val.t = "boolean" /\ reg.val.v = <<"false">> /\ ~b
       \/ reg.st = "idle" /\ Top.rules[Top.idx].exp.op = "none" /\ b

\* C9: a conditional goes through its branches in source order; at the
\* first branch whose condition is truthy the conditional is over: that
\* branch gives the result and no later branch is looked at; a falsy
\* condition leads to the next branch; with no branch left the result is
\* undefined.
C9_FirstTruthyBranchWins ==
    [][/\ ConditionIs(TRUE) =>
            /\ Len(ctl') >= Len(ctl) => ctl'[Len(ctl)].fn # "visitIfElseBody"
            /\ Top.rules[Top.idx].strs # <<>> =>
                   /\ Len(ctl') = Len(ctl)
                   /\ ctl'[Len(ctl)].fn = "visitNormalTemplateBody"
                   /\ ctl'[Len(ctl)].strs = Top.rules[Top.idx].strs
       /\ ConditionIs(FALSE) =>
            /\ Len(ctl') = Len(ctl)
            /\ ctl'[Len(ctl)] = [Top EXCEPT !.idx = @ + 1]
       /\ (ctl # <<>> /\ Top.fn = "visitIfElseBody" /\ Top.idx > Len(Top.rules)) =>
            /\ ctl' = Front(ctl)
            /\ reg'.st = "return"
            /\ reg'.val.t = "undefined"]_vars

\* visitSwitchCaseBody has the value of the case at idx
CaseValueAt ==
    /\ ctl # <<>>
    /\ Top.fn = "visitSwitchCaseBody"
    /\ Top.pc = "caseValue"
    /\ reg.st = "return"
    /\ reg.val.t = "string"

\* C10: a switch evaluates its switch expression once and then its cases
\* in order; the first case whose value, as a string, equals the switch
\* value ends the switch with that case's body as the result, and no later
\* case is evaluated; a case that differs leads to the next one; a DEFAULT
\* in last position is used when no case matched; with nothing left the
\* result is undefined.
C10_FirstMatchingCaseWins ==
    [][/\ (CaseValueAt /\ reg.val.v = Top.sw) =>
            /\ reg'.st # "throw"
            /\ Len(ctl') >= Len(ctl) => ctl'[Len(ctl)].fn # "visitSwitchCaseBody"
            /\ Top.rules[Top.idx].strs # <<>> =>
                   /\ Len(ctl') = Len(ctl)
                   /\ ctl'[Len(ctl)].fn = "visitNormalTemplateBody"
                   /\ ctl'[Len(ctl)].strs = Top.rules[Top.idx].strs
       /\ (CaseValueAt /\ reg.val.v # Top.sw) =>
            /\ Len(ctl') = Len(ctl)
            /\ ctl'[Len(ctl)] = [Top EXCEPT !.pc = "case", !.idx = @ + 1]
       /\ (/\ ctl # <<>>
           /\ Top.fn = "visitSwitchCaseBody"
           /\ Top.pc \in {"case", "caseValue"}
           /\ Len(ctl') >= Len(ctl)
           /\ ctl'[Len(ctl)].fn = "visitSwitchCaseBody") =>
            ctl'[Len(ctl)].pc \in {"case", "caseValue"}
       /\ (/\ ctl # <<>>
           /\ Top.fn = "visitSwitchCaseBody"
           /\ Top.pc = "case"
           /\ Top.idx = Len(Top.rules)
           /\ Top.rules[Top.idx].stat = "DEFAULT"
           /\ Top.rules[Top.idx].strs # <<>>) =>
            /\ Len(ctl') = Len(ctl)
            /\ ctl'[Len(ctl)].fn = "visitNormalTemplateBody"
            /\ ctl'[Len(ctl)].strs = Top.rules[Top.idx].strs
       /\ (/\ ctl # <<>>
           /\ Top.fn = "visitSwitchCaseBody"
           /\ Top.pc = "case"
           /\ Top.idx > Len(Top.rules)) =>
            /\ ctl' = Front(ctl)
            /\ reg'.st = "return"
            /\ reg'.val.t = "undefined"]_vars

-----------------------------------------------------------------------------
(* Structured templates                                                    *)

\* visitStructuredTemplateBody has the value of a ${...} line in hand
MergeAt ==
    /\ ctl # <<>>
    /\ Top.fn = "visitStructuredTemplateBody"
    /\ Top.idx <= Len(Top.rules)
    /\ Top.rules[Top.idx].stat = "OBJ"
    /\ reg.st = "return"

\* C11: merging the keys of a referenced structured object leaves every key
\* that is already in the result as it is, with its value: the keys set by
\* earlier key/value lines, the keys taken from earlier references and the
\* type tag; the merge can only add keys after them.
C11_MergeNeverOverwrites ==
    [][MergeAt =>
          /\ Len(ctl') = Len(ctl)
          /\ Len(ctl'[Len(ctl)].acc) >= Len(Top.acc)
          /\ \A i \in DOMAIN Top.acc : ctl'[Len(ctl)].acc[i] = Top.acc[i]]_vars

\* C11 witness: a structured template has merged two references of its own
\* type; the first brought `speak`, the second also had `text` and `speak`,
\* with other values, and the result still has the value of the key/value
\* line for `text` and the value of the first reference for `speak`
C11_Witness ==
    /\ ctl # <<>>
    /\ Top.fn = "visitStructuredTemplateBody"
    /\ Top.idx = 4
    /\ InProgress # <<>>
    /\ LET self == Last(InProgress).name
           first == Successor(self)
           second == Successor(first)
       IN /\ self \in TemplateNames
          /\ templateMap[first].templateBodyParseTree.kind = "structured"
          /\ templateMap[second].templateBodyParseTree.kind = "structured"
          /\ templateMap[second].templateBodyParseTree.typeName = "T"
          /\ Len(templateMap[second].templateBodyParseTree.rules) = 2
          /\ Top.acc = << <<"lgType", [t |-> "string", v |-> <<"T">>]>>,
                          <<"text", [t |-> "string", v |-> <<"a">>]>>,
                          <<"speak", [t |-> "string", v |-> first]>> >>

-----------------------------------------------------------------------------
(* Scopes of parameterized calls                                           *)

\* an expression is about to call a template with arguments
CallWithArguments ==
    /\ Running
    /\ Top.fn \in {"evalExpression", "evalExpressionInCondition"}
    /\ Top.pc = "start"
    /\ Top.exp.op \in {"call", "template"}
    /\ parse(templateMap, Top.exp) = NoErr
    /\ Len(Top.exp.args) >= 1
    /\ evaluationTargetStack # <<>>

\* the frame the expression is evaluated in
CallerScope == targets[Last(evaluationTargetStack)].scope

\* C12: a template called with one or more arguments is evaluated in a
\* scope whose local layer holds exactly its declared parameters, bound in
\* order to the arguments, and whose inherited layer is the caller's global
\* layer; nothing of the caller's local layer is in it, so callers that
\* differ only in their local bindings hand the callee the same scope.
C12_ParametersOverCallerGlobal ==
    [][(CallWithArguments /\ reg'.st = "call") =>
          LET callee == templateMap[IF Last(Top.exp.fn) = ReExecuteSuffix
                                    THEN Front(Top.exp.fn) ELSE Top.exp.fn]
          IN /\ reg'.name = Top.exp.fn
             /\ reg'.scope.cm
             /\ reg'.scope.globalMemory = CallerScope.globalMemory
             /\ Len(reg'.scope.localMemory) = Len(callee.parameters)
             /\ \A i \in DOMAIN callee.parameters :
                    /\ reg'.scope.localMemory[i][1] = callee.parameters[i]
                    /\ i <= Len(Top.exp.args) =>
                           reg'.scope.localMemory[i][2] = Top.exp.args[i]]_vars

\* C12 witness: a caller whose own parameter p is 'u' has called a template
\* with the argument 'v'; the callee is evaluated with p = 'v' over the
\* host's global layer
C12_Witness ==
    /\ reg.st = "call"
    /\ ctl # <<>>
    /\ Top.fn = "evalExpression"
    /\ Top.pc = "awaiting"
    /\ evaluationTargetStack # <<>>
    /\ CallerScope.localMemory = << <<"p", [t |-> "string", v |-> <<"u">>]>> >>
    /\ reg.scope.localMemory = << <<"p", [t |-> "string", v |-> <<"v">>]>> >>
    /\ reg.scope.globalMemory = CallerScope.globalMemory
    /\ reg.scope.globalMemory # <<>>

-----------------------------------------------------------------------------
(* Embedded expressions                                                    *)

\* evalExpression has what the expression engine answered: { value, error }
EngineAnswer ==
    IF Top.pc = "awaiting" THEN applyResult(reg)
    ELSE IF Top.exp.op \in TemplateCalls
         THEN [value |-> Undefined,
               error |-> constructScope(templateMap, CalledTemplate(Top.exp, CallerScope),
                             Top.exp.args,
                             currentTarget(targets, evaluationTargetStack)).error]
         ELSE tryEvaluate(Top.exp, CallerScope)
Answered ==
    /\ ctl # <<>>
    /\ Top.fn = "evalExpression"
    /\ evaluationTargetStack # <<>>
    /\ \/ Top.pc = "awaiting" /\ reg.st \in {"return", "throw"}
       \/ /\ Top.pc = "start"
          /\ reg.st = "idle"
          /\ parse(templateMap, Top.exp) = NoErr
          /\ Top.exp.op \in TemplateCalls => EngineAnswer.error.kind # "none"
EvaluationError == Answered /\ EngineAnswer.error.kind # "none"
NoValue == Answered /\ EngineAnswer.error.kind = "none" /\ EngineAnswer.value.t = "undefined"

\* C13 as stated: an embedded expression whose evaluation fails (it reports
\* an error or gives no value) raises an error in strict mode; in lenient
\* mode nothing is raised and the placeholder 'null' is the result.
C13_FailureRaisesOnlyInStrictMode ==
    [][(EvaluationError \/ NoValue) =>
          IF lgOptions.strictMode
          THEN reg'.st = "throw"
          ELSE reg'.st = "return" /\ reg'.val = [t |-> "string", v |-> <<"null">>]]_vars

\* C13 amended: an embedded expression whose evaluation reports an error
\* raises an error in strict and in lenient mode alike; an expression that
\* evaluates without error to no value (undefined) raises an error in
\* strict mode and, in lenient mode, raises nothing and gives the
\* placeholder 'null'.
C13_ErrorAlwaysRaisesNoValueByMode ==
    [][/\ EvaluationError =>
            /\ reg'.st = "throw"
            /\ reg'.err.kind = EngineAnswer.error.kind
       /\ NoValue =>
            IF lgOptions.strictMode
            THEN reg'.st = "throw" /\ reg'.err.kind = "nullExpression"
            ELSE reg'.st = "return" /\ reg'.val = [t |-> "string", v |-> <<"null">>]]_vars

\* C13 witness: in lenient mode an expression that had no value has been
\* given the placeholder, which is on its way into the template string
C13_Witness ==
    /\ ~lgOptions.strictMode
    /\ reg.st = "return"
    /\ reg.val = [t |-> "string", v |-> <<"null">>]
    /\ ctl # <<>>
    /\ Top.fn = "visitNormalTemplateString"
    /\ Top.nodes[Top.idx].exp.op = "var"

-----------------------------------------------------------------------------
(* Line-break style                                                        *)

\* every newline of s is one of a pair: the runs of newlines in s all have
\* length two.  In the templates evaluated here a newline of the plain
\* result always follows a letter, so this is what doubling each newline
\* exactly once gives.
EachNewLineDoubledOnce(s) ==
    \A i \in DOMAIN s :
        (s[i] = "\n" /\ (i = 1 \/ s[i - 1] # "\n")) =>
            /\ i + 1 <= Len(s)
            /\ s[i + 1] = "\n"
            /\ (i + 2 <= Len(s) => s[i + 2] # "\n")

\* C14: with the Markdown line-break style, the string the host gets from
\* Templates.evaluate has every newline of the plain result doubled exactly
\* once, whatever the depth of the template call the newline comes from.
C14_NewLinesDoubledOnce ==
    (/\ lgOptions.LineBreakStyle = "markdown"
     /\ outcome.st = "return"
     /\ outcome.val.t = "string")
    => EachNewLineDoubledOnce(outcome.val.v)

-----------------------------------------------------------------------------
(* The Templates object: what the properties below talk about              *)

\* the host has just called one of the methods that evaluate or analyse
Asked ==
    /\ ctl = <<>>
    /\ ctl' # <<>>
    /\ ctl'[1].fn \in {"evaluate", "expandTemplate", "analyzeTemplate", "evaluateText"}

\* the collection or one of its references holds a diagnostic of this severity
HoldsDiagnostic(file, severity) ==
    \/ \E i \in DOMAIN file.diagnostics : file.diagnostics[i].severity = severity
    \/ \E r \in DOMAIN file.references :
           \E i \in DOMAIN file.references[r].diagnostics :
               file.references[r].diagnostics[i].severity = severity

\* the collection has a template of its own with this name
Owns(file, name) == \E i \in DOMAIN file.items : file.items[i].name = name
OwnTemplate(file, name) ==
    file.items[CHOOSE i \in DOMAIN file.items : file.items[i].name = name]

\* this step is a call of the edit operation op
EditedBy(op) == edit'.op = op /\ (edit' # edit \/ lgFile' # lgFile)

\* Templates.evaluate is handing its result to the host
EvaluateReturns ==
    /\ Len(ctl) = 1
    /\ Top.fn = "evaluate"
    /\ reg.st \in {"return", "throw"}
    /\ ctl' = <<>>

\* C15: evaluate, expandTemplate, analyzeTemplate and evaluateText fail
\* before any evaluator is made when the collection or one of its references
\* holds an Error diagnostic; when none does, warnings or not, they do not
\* fail with the diagnostics error.
C15_ErrorDiagnosticsBlockWarningsDoNot ==
    [][Asked =>
          IF HoldsDiagnostic(lgFile, "Error")
          THEN /\ reg'.st = "throw"
               /\ UNCHANGED <<templateMap, targets, evaluationTargetStack>>
          ELSE ~(reg'.st = "throw" /\ reg'.err.kind = "diagnostics")]_vars

\* analyzeTemplate has failed on an Error diagnostic that only the imported
\* file holds
C15_Witness ==
    /\ ctl # <<>>
    /\ Top.fn = "analyzeTemplate"
    /\ reg.st = "throw"
    /\ reg.err.kind = "diagnostics"
    /\ lgFile.diagnostics = <<>>
    /\ lgFile.references # <<>>
    /\ HoldsDiagnostic(lgFile, "Error")

\* C16: in a collection that holds no Error diagnostic, the first evaluation
\* of a name after a successful addTemplate of that name yields the added
\* body, and after a deleteTemplate of that name it fails with
\* template-not-found, whatever edits came before.
C16_AddThenEvaluateDeleteThenNotFound ==
    [][(/\ EvaluateReturns
        /\ ~HoldsDiagnostic(lgFile, "Error")
        /\ edit.st = "return"
        /\ edit.templateName = Top.name) =>
          /\ edit.op = "addTemplate" =>
                /\ outcome'.st = "return"
                /\ \E i \in DOMAIN convertTemplateBody(edit.templateBody) :
                       outcome'.val = Str(convertTemplateBody(edit.templateBody)[i].value)
          /\ edit.op = "deleteTemplate" =>
                /\ outcome'.st = "throw"
                /\ outcome'.err.kind = "templateNotExist"]_vars

\* C17: updateTemplate and deleteTemplate with a name that is not one of the
\* collection's own templates return without a reparse and leave every field
\* of the collection as it was.
C17_UnknownNameIsNoOp ==
    [][(/\ EditedBy("updateTemplate") \/ EditedBy("deleteTemplate")
        /\ ~Owns(lgFile, edit'.templateName)) =>
          /\ lgFile' = lgFile
          /\ ~edit'.parsed
          /\ edit'.st = "return"]_vars

\* updateTemplate was called with the name of an imported template
C17_Witness ==
    /\ edit.op = "updateTemplate"
    /\ edit.templateName = NameR
    /\ ~edit.parsed
    /\ lgFile.references # <<>>
    /\ lgFile.items # <<>>

\* C18: addTemplate with a name one of the collection's own templates has
\* raises template-exists and leaves content and templates as they were.
C18_AddExistingRaises ==
    [][(EditedBy("addTemplate") /\ Owns(lgFile, edit'.templateName)) =>
          /\ edit'.st = "throw"
          /\ edit'.err.kind = "templateExist"
          /\ lgFile'.content = lgFile.content
          /\ lgFile'.items = lgFile.items]_vars

\* addTemplate has raised template-exists for a name the collection has
C18_Witness ==
    /\ edit.op = "addTemplate"
    /\ edit.st = "throw"
    /\ edit.err.kind = "templateExist"
    /\ Owns(lgFile, edit.templateName)

\* the text an edit puts in place of the range: the name line and the body of
\* an update, the empty text of a delete
NewText(call) ==
    IF call.op = "deleteTemplate" THEN <<BlankLine>>
    ELSE <<buildTemplateNameLine(call.newTemplateName, call.parameters)>>
         \o convertTemplateBody(call.templateBody)

\* C19: updateTemplate and deleteTemplate of an own template put the new
\* text in place of the lines from the start line to the end line of the
\* template's range, keep every line before and after in order, and leave
\* the templates of a parse of the new content.
C19_RangeReplacedRestPreserved ==
    [][(/\ EditedBy("updateTemplate") \/ EditedBy("deleteTemplate")
        /\ Owns(lgFile, edit'.templateName)) =>
          LET range == OwnTemplate(lgFile, edit'.templateName).sourceRange
              old == lgFile.content
              new == lgFile'.content
              text == NewText(edit')
              shift == Len(text) - (range.end - range.start + 1)
          IN /\ Len(new) = Len(old) + shift
             /\ \A i \in 1..(range.start - 1) : new[i] = old[i]
             /\ \A i \in 1..Len(text) : new[range.start - 1 + i] = text[i]
             /\ \A i \in (range.end + 1)..Len(old) : new[i + shift] = old[i]
             /\ lgFile'.items = ParseItems(new, 1)]_vars

\* a template between an import line and another template has been deleted
C19_Witness ==
    /\ edit.op = "deleteTemplate"
    /\ edit.parsed
    /\ Len(lgFile.content) = 4
    /\ lgFile.content[1].kind = "import"
    /\ lgFile.content[2] = BlankLine
    /\ lgFile.content[3].kind = "name"

\* an expression outside any evaluation has just called an exported function
CalledFromOutside ==
    /\ ctl = <<>>
    /\ ctl' # <<>>
    /\ ctl'[1].fn = "globalTemplateFunction"

\* C20: a call of the function registered for an exported template t starts
\* the evaluation of t with its parameters bound to the arguments.
C20_ExportedFunctionEvaluatesTemplate ==
    [][CalledFromOutside =>
          /\ reg'.st = "call"
          /\ reg'.name = ctl'[1].name
          /\ \E args \in GlobalArguments :
                 reg'.scope.localMemory =
                     BindParameters(OwnTemplate(lgFile, reg'.name).parameters, args)]_vars

-----------------------------------------------------------------------------
(* Candidate selection                                                     *)

\* the body of a normal template with its candidates is about to be visited
SelectingCandidate == Running /\ Top.fn = "visitNormalTemplateBody"

\* the body visitor can select the i-th candidate in its next step
CanSelect(i) ==
    ENABLED (/\ visitNormalTemplateBody
             /\ ctl' = ReplaceTop(NormalTemplateStringAct(Top.strs[i])))

\* C23: visiting a normal template body with N candidates selects an index
\* in 0..N-1: the step raises no error and starts the evaluation of one of
\* the N candidates and of nothing else; and every one of the N candidates
\* can be the one selected.
C23_SelectsOneOfTheCandidates ==
    /\ [][SelectingCandidate =>
             /\ reg' = reg
             /\ \E i \in 1..Len(Top.strs) :
                    ctl' = ReplaceTop(NormalTemplateStringAct(Top.strs[i]))]_vars
    /\ [](SelectingCandidate => \A i \in 1..Len(Top.strs) : CanSelect(i))

\* C23 witness: the last of two candidates has been selected and is being
\* evaluated
C23_Witness ==
    /\ ctl # <<>>
    /\ Top.fn = "visitNormalTemplateString"
    /\ Top.nodes = <<Text(<<"b">>), Escape(<<NewLineChar>>)>>

-----------------------------------------------------------------------------
(* Template references                                                     *)

\* an expression that names a template, by calling it by its name or by
\* template('name', ...), is about to be parsed and evaluated
Binding ==
    /\ Running
    /\ Top.fn \in {"evalExpression", "evalExpressionInCondition"}
    /\ Top.pc = "start"
    /\ Top.exp.op \in {"call", "template"}
    /\ evaluationTargetStack # <<>>

\* the template the expression names
ReferencedName ==
    IF Top.exp.op = "call" /\ Last(Top.exp.fn) = ReExecuteSuffix
    THEN Front(Top.exp.fn) ELSE Top.exp.fn
ReferenceExists == ReferencedName \in DOMAIN templateMap
DeclaredCount == Len(templateMap[ReferencedName].parameters)
ActualCount == Len(Top.exp.args)

\* C22: an expression that calls a template by its name, or through
\* template(name, ...) with a constant name, fails when it is bound, before
\* anything is evaluated (no frame is pushed or popped, no call is made), if
\* the template does not exist or if it passes a non-zero number of
\* arguments that differs from the declared number of parameters; with no
\* argument or with exactly the declared number the check passes and the
\* template is called.
C22_ReferenceCheckedWhenBound ==
    [][Binding =>
          IF ~ReferenceExists \/ (ActualCount # 0 /\ ActualCount # DeclaredCount)
          THEN /\ reg'.st = "throw"
               /\ reg'.err.kind = IF ReferenceExists THEN "argumentMismatch"
                                  ELSE "templateNotExist"
               /\ reg'.err.trail = <<>>
               /\ evaluationTargetStack' = evaluationTargetStack
               /\ targets' = targets
          ELSE /\ reg'.st = "call"
               /\ reg'.name = Top.exp.fn]_vars

\* C22 witness: a call with two arguments of a template that declares one
\* parameter has been refused, two templates deep
C22_Witness ==
    /\ reg.st = "throw"
    /\ reg.err.kind = "argumentMismatch"
    /\ reg.err.trail = <<>>
    /\ Len(evaluationTargetStack) = 2
    /\ Len(InProgress) = 2

-----------------------------------------------------------------------------
(* Depth of the evaluation stack                                           *)

\* no template name is in more than one frame of the evaluation stack
NoNameTwiceOnStack ==
    \A i, j \in DOMAIN StackNames : StackNames[i] = StackNames[j] => i = j

\* C25: no template name appears in more than one frame of the evaluation
\* stack, so the stack is never deeper than the number of templates in the
\* template map.
C25_NoNameTwiceDepthBounded ==
    /\ NoNameTwiceOnStack
    /\ Len(evaluationTargetStack) <= Cardinality(DOMAIN templateMap)

-----------------------------------------------------------------------------
(* The stack and the invocations in progress                               *)

\* the frames pushed by the invocations in progress, outermost first
FramesInProgress == [i \in 1..Len(InProgress) |-> InProgress[i].me]

\* C26: while a template body is being evaluated, the evaluation stack
\* holds exactly the frames of the invocations in progress, in invocation
\* order, so that currentTarget() is the frame of the template whose body
\* is being evaluated; this holds also after a loop-detected error or a
\* nested failure has been swallowed by a condition in lenient mode.
C26_StackIsInvocationsInProgress ==
    (ctl # <<>> /\ reg.st = "idle") =>
        /\ evaluationTargetStack = FramesInProgress
        /\ currentTarget(targets, evaluationTargetStack) = targets[Last(InProgress).me]

-----------------------------------------------------------------------------
(* What the memoization map answers                                        *)

\* an invocation that has a caller has evaluated its body and returns
ComputingCallReturns ==
    /\ Returned
    /\ Top.fn = "evaluateTemplate"
    /\ Top.prev # 0

\* C27: a nested call answered from the caller's memoization map returns
\* exactly the value that the call which computed it returned to that
\* caller, whatever the options are: what a computing call leaves in the
\* caller's map is the value it returns, and a call answered from the map
\* returns what the map holds.
C27_MemoizedValueIsTheValueReturned ==
    /\ [][(ComputingCallReturns /\ Top.prev \in DOMAIN targets') =>
             MapGet(targets'[Top.prev].evaluatedChildren, Top.cid) = reg'.val]_vars
    /\ [][(Cached /\ ~CalledWithMarker /\ reg'.st = "return") =>
             reg'.val = CachedValue]_vars

-----------------------------------------------------------------------------
(* Branch conditions                                                       *)

\* the condition of a branch of a conditional template has been evaluated
\* by the expression engine
ConditionAnswered ==
    /\ Len(ctl) >= 2
    /\ Top.fn = "evalExpressionInCondition"
    /\ ctl[Len(ctl) - 1].fn = "visitIfElseBody"
    /\ \/ Top.pc = "awaiting" /\ reg.st \in {"return", "throw"}
       \/ /\ Top.pc = "start"
          /\ reg.st = "idle"
          /\ evaluationTargetStack # <<>>
          /\ parse(templateMap, Top.exp) = NoErr
          /\ Top.exp.op \in TemplateCalls => EngineAnswer.error.kind # "none"

\* the evaluation failed or gave a falsy value
ConditionFailsOrFalsy ==
    /\ ConditionAnswered
    /\ EngineAnswer.error.kind # "none" \/ ~Truthy(EngineAnswer.value)

\* the conditional template has been told that its branch does not hold
BranchRefused ==
    /\ ctl # <<>>
    /\ Top.fn = "visitIfElseBody"
    /\ reg.st = "return"
    /\ ~Truthy(reg.val)

\* an error is passing through the conditional template
BranchRaised ==
    /\ ctl # <<>>
    /\ Top.fn = "visitIfElseBody"
    /\ reg.st = "throw"

-----------------------------------------------------------------------------
(* Key/value lines and merged references                                   *)

\* visitStructuredTemplateBody is about to handle its next body line, the
\* value of the line at hand
HandlingLine ==
    /\ ctl # <<>>
    /\ Top.fn = "visitStructuredTemplateBody"
    /\ Top.idx <= Len(Top.rules)
    /\ reg.st = "return" \/ (reg.st = "idle" /\ ~HasExpression(Top.rules[Top.idx]))
HandlingKeyValueLine == HandlingLine /\ Top.rules[Top.idx].stat = "KV"
HandlingReference ==
    /\ HandlingLine
    /\ Top.rules[Top.idx].stat = "OBJ"
    /\ SameStructureType(reg.val, Top.typeName)

\* the value of the key/value line at hand
LineValue ==
    IF reg.st = "return" THEN reg.val ELSE [t |-> "string", v |-> Top.rules[Top.idx].text]

\* the lower-cased key of the key/value line at hand
LineKey ==
    IF Top.rules[Top.idx].key = "Text" THEN "text"
    ELSE IF Top.rules[Top.idx].key = "Speak" THEN "speak"
    ELSE Top.rules[Top.idx].key

\* the result object after the step
ResultAfter == ctl'[Len(ctl)].acc

\* C29: in a structured template a key/value line always sets its
\* lower-cased key to its own value, whatever an earlier key/value line or
\* an earlier merged reference gave to that key, and leaves the other keys
\* alone; a merged reference gives its value to every key it provides that
\* the result does not have yet. So the final value of a key is that of
\* the last key/value line naming it or, if no key/value line names it,
\* that of the first merged reference providing it.
C29_LastKeyValueLineElseFirstReference ==
    /\ [][HandlingKeyValueLine =>
             /\ HasKey(ResultAfter, LineKey)
             /\ Lookup(ResultAfter, LineKey) = LineValue
             /\ \A i \in DOMAIN Top.acc :
                    Top.acc[i][1] # LineKey =>
                        /\ HasKey(ResultAfter, Top.acc[i][1])
                        /\ Lookup(ResultAfter, Top.acc[i][1]) = Top.acc[i][2]]_vars
    /\ [][HandlingReference =>
             \A i \in DOMAIN reg.val.v :
                 ~HasKey(Top.acc, reg.val.v[i][1]) =>
                     /\ HasKey(ResultAfter, reg.val.v[i][1])
                     /\ Lookup(ResultAfter, reg.val.v[i][1]) = reg.val.v[i][2]]_vars

-----------------------------------------------------------------------------
(* All templates and all diagnostics of a collection                       *)

\* every object is once in the list
EachOnce(objects) ==
    \A i, j \in DOMAIN objects : objects[i] = objects[j] => i = j

-----------------------------------------------------------------------------
(* What the edit operations leave alone                                    *)

\* this step is a call of addTemplate, updateTemplate or deleteTemplate
Edited ==
    \/ EditedBy("addTemplate")
    \/ EditedBy("updateTemplate")
    \/ EditedBy("deleteTemplate")

\* C30: addTemplate, updateTemplate and deleteTemplate leave the
\* collection's id, its import resolver and its expression parser as they
\* were, so that after any number of edits the collection evaluates with
\* the expression parser it was created with.
C30_EditsKeepIdResolverAndParser ==
    [][Edited =>
          /\ lgFile'.id = lgFile.id
          /\ lgFile'.importResolver = lgFile.importResolver
          /\ lgFile'.expressionParser = lgFile.expressionParser]_vars

-----------------------------------------------------------------------------
(* The generator selected for a locale                                     *)

\* the generator of this locale exists and has the template asked for
Matches(locale) ==
    /\ locale \in DOMAIN languageGenerators
    /\ generated.template \in languageGenerators[locale].lg

\* a generation has been asked for
Asking == generated.st # "idle"

\* the locale of the turn has no generator, and neither has its language
UnknownLocale ==
    /\ generated.locale # NeutralLocale
    /\ generated.locale \notin DOMAIN languageGenerators
    /\ <<generated.locale[1]>> \notin DOMAIN languageGenerators

\* the text of the generator of this locale
AnswerOf(locale) ==
    [t |-> "string", v |-> generated.template \o locale]

====
